---------------------------- MODULE Spec2Model ----------------------------
(***************************************************************************)
(* Model of the reconciliation and normalization engine of CoinMoa (the    *)
(* Lighter extraction pipeline): the coverage guard, the initial-capital   *)
(* inference and profit report, the main pipeline, the dedup-and-sort      *)
(* merge step and the per-record normalizers.                              *)
(*                                                                         *)
(* Money amounts are integers (quote-currency units); a missing value      *)
(* (Python None, pandas NaT) is the model value None.                      *)
(***************************************************************************)
EXTENDS Integers, Sequences, FiniteSets, TLC

VARIABLES
    pc,             \* position of the operation under check
    statuses,       \* client.endpoint_statuses: sequence of [name, success]
    transfers,      \* the transfers table (sequence of rows)
    trades,         \* the trades table (sequence of rows)
    outcome,        \* "pending", "returned" or "raised"
    details,        \* details payload of the RuntimeError raised by the guard
    unified_df,     \* the unified event table given to the reporter
    balance_snapshot,   \* the balance snapshot given to the reporter
    inputs,         \* scalar arguments of the call under check
    inference,      \* the InitialCapitalInference returned
    report,         \* the report returned by build_profit_report
    balances,       \* the balance snapshot table
    airdrops,       \* the airdrop table
    steps,          \* the calls main has completed, in order
    files,          \* the files main has written
    stream,         \* the event stream a merge is for
    rows,           \* the rows a fetcher collected, in insertion order
    merged,         \* the table the dedup-and-sort step returned
    remerged,       \* the table of a second dedup-and-sort step
    raw,            \* the raw record (or batch) given to a normalizer
    account_index,  \* settings.account_index
    result,         \* what the normalizer returned
    tables,         \* the tables built from the normalized rows
    timeline,       \* the reconstructed timeline
    security        \* the state of a SecurityGuard.check_all call

vars == <<pc, statuses, transfers, trades, outcome, details,
          unified_df, balance_snapshot, inputs, inference, report,
          balances, airdrops, steps, files, stream, rows, merged, remerged,
          raw, account_index, result, tables, timeline, security>>

guardVars == <<statuses, transfers, trades, outcome, details,
               balances, airdrops, steps, files>>
mergeVars == <<stream, rows, merged, remerged>>
normVars == <<raw, account_index, result, tables, timeline>>
reportVars == <<unified_df, balance_snapshot, inputs, inference, report>>

None == "None"

\* Sequences over S of length at most n.
SeqUpTo(S, n) == UNION {[1..k -> S] : k \in 0..n}

\* The elements of a sequence.
Range(s) == {s[i] : i \in 1..Len(s)}

\* The reporter's variables in a specification that does not use them.
NoInference == [estimated_beginning_equity |-> 0, method |-> None,
                confidence |-> None, caveats |-> <<>>]

ReportUnused ==
    /\ unified_df = <<>>
    /\ balance_snapshot = None
    /\ inputs = None
    /\ inference = NoInference
    /\ report = None

(***************************************************************************)
(* Coverage guard: main.py, _ensure_api_coverage.                          *)
(***************************************************************************)

\* Bound of the guard's status list.
MaxStatuses == 4

\* core = ["trades", "deposit/history", "withdraw/history", "l1Metadata"]
core == <<"trades", "deposit/history", "withdraw/history", "l1Metadata">>

\* Endpoint names a status may carry: the core names and one optional endpoint.
EndpointNames == Range(core) \cup {"account"}

EndpointStatus == [name : EndpointNames, success : BOOLEAN]

\* by_name = {s.name: s for s in statuses}: a later record of a name replaces
\* an earlier one.
by_name(sts) ==
    [n \in {sts[i].name : i \in 1..Len(sts)} |->
        sts[CHOOSE i \in 1..Len(sts) :
                /\ sts[i].name = n
                /\ \A j \in (i+1)..Len(sts) : sts[j].name # n]]

\* missing = [name for name in core if name not in by_name]
missing(sts) == SelectSeq(core, LAMBDA n : n \notin DOMAIN by_name(sts))

failed_mutant(sts) ==
    SelectSeq(core, LAMBDA n : \E i \in 1..Len(sts) : sts[i].name = n /\ ~sts[i].success)

\* failed = [name for name in core if name in by_name and not by_name[name].success]
failed(sts) ==
    SelectSeq(core, LAMBDA n : n \in DOMAIN by_name(sts) /\ ~by_name(sts)[n].success)

no_data_mutant(tr, td) == tr = <<>> \/ td = <<>>

\* no_data = transfers.empty and trades.empty
no_data(tr, td) == tr = <<>> /\ td = <<>>

\* all_core_failed = len(failed) == len([c for c in core if c in by_name])
all_core_failed(sts) ==
    Len(failed(sts)) = Len(SelectSeq(core, LAMBDA n : n \in DOMAIN by_name(sts)))

\* The condition of the raise.
coverage_insufficient(sts, tr, td) ==
    missing(sts) # <<>> \/ (no_data(tr, td) /\ all_core_failed(sts))

\* The details dict of the RuntimeError.
coverage_details(sts, tr, td) ==
    [missing_core_status |-> missing(sts),
     failed_core_endpoints |-> failed(sts),
     transfers_rows |-> Len(tr),
     trades_rows |-> Len(td)]

NoDetails == [missing_core_status |-> <<>>, failed_core_endpoints |-> <<>>,
              transfers_rows |-> 0, trades_rows |-> 0]

\* The guard reads only the emptiness and length of a table: an empty table
\* and a table of one placeholder row.
GuardTransferTables == {<<>>, <<[source |-> "deposit/history"]>>}
GuardTradeTables == {<<>>, <<[source |-> "trades"]>>}

\* The pipeline's own variables in a specification that does not use them.
MainUnused ==
    /\ balances = <<>>
    /\ airdrops = <<>>
    /\ steps = <<>>
    /\ files = {}

\* The normalizers' variables in a specification that does not use them.
NormUnused ==
    /\ raw = None
    /\ account_index = 0
    /\ result = None
    /\ tables = None
    /\ timeline = None

\* The security guard's variable in a specification that does not use it.
SecurityUnused == security = None

\* The merge step's variables in a specification that does not use them.
MergeUnused ==
    /\ stream = None
    /\ rows = <<>>
    /\ merged = <<>>
    /\ remerged = <<>>

\* The guard's variables in a specification that does not use them.
GuardUnused ==
    /\ statuses = <<>>
    /\ transfers = <<>>
    /\ trades = <<>>
    /\ outcome = "pending"
    /\ details = NoDetails
    /\ MainUnused

InitGuard ==
    /\ pc = "guard"
    /\ NormUnused
    /\ ReportUnused
    /\ MainUnused
    /\ MergeUnused
    /\ SecurityUnused
    /\ statuses \in SeqUpTo(EndpointStatus, MaxStatuses)
    /\ transfers \in GuardTransferTables
    /\ trades \in GuardTradeTables
    /\ outcome = "pending"
    /\ details = NoDetails

\* _ensure_api_coverage(statuses, transfers, trades)
ensure_api_coverage ==
    /\ pc = "guard"
    /\ IF coverage_insufficient(statuses, transfers, trades)
       THEN /\ outcome' = "raised"
            /\ details' = coverage_details(statuses, transfers, trades)
       ELSE /\ outcome' = "returned"
            /\ details' = details
    /\ pc' = "done"
    /\ UNCHANGED <<statuses, transfers, trades, balances, airdrops, steps, files>>
    /\ UNCHANGED reportVars
    /\ UNCHANGED mergeVars
    /\ UNCHANGED normVars
    /\ UNCHANGED security

NextGuard == ensure_api_coverage

SpecGuard == InitGuard /\ [][NextGuard]_vars

\* C1: the guard raises if and only if (a) some core name has no status
\* record, or (b) both tables are empty and every core name that has a status
\* record has success = false in the record kept for it; otherwise it returns.
CoreHasRecord(n) == \E i \in 1..Len(statuses) : statuses[i].name = n

CoreRecordFailed(n) ==
    \E i \in 1..Len(statuses) :
        /\ statuses[i].name = n
        /\ \A j \in (i+1)..Len(statuses) : statuses[j].name # n
        /\ statuses[i].success = FALSE

C1_GuardAbortsIff ==
    pc = "done" =>
        /\ outcome \in {"raised", "returned"}
        /\ outcome = "raised" <=>
              \/ \E k \in 1..Len(core) : ~CoreHasRecord(core[k])
              \/ /\ Len(transfers) = 0
                 /\ Len(trades) = 0
                 /\ \A k \in 1..Len(core) :
                        CoreHasRecord(core[k]) => CoreRecordFailed(core[k])

\* C1 witness: a partial failure (one core success, the others failed, and a
\* non-empty trade table) after which the guard returned normally.
C1_Witness ==
    /\ pc = "done"
    /\ outcome = "returned"
    /\ \A k \in 1..Len(core) : CoreHasRecord(core[k])
    /\ \E k \in 1..Len(core) : CoreRecordFailed(core[k])
    /\ Len(trades) > 0

\* C14: when the guard aborts, the details of the error list exactly the core
\* names without a status record, exactly the core names whose (kept) status
\* record is a failure, and the row counts of the two tables given to it.
C14_AbortDetails ==
    (pc = "done" /\ outcome = "raised") =>
        /\ Range(details.missing_core_status) =
              {n \in Range(core) : ~CoreHasRecord(n)}
        /\ Len(details.missing_core_status) =
              Cardinality(Range(details.missing_core_status))
        /\ Range(details.failed_core_endpoints) =
              {n \in Range(core) : CoreRecordFailed(n)}
        /\ Len(details.failed_core_endpoints) =
              Cardinality(Range(details.failed_core_endpoints))
        /\ details.transfers_rows = Len(transfers)
        /\ details.trades_rows = Len(trades)

\* C14 witness: an abort for a missing core name, with a failed core name
\* whose earlier record was a success, a recovered one, and a transfer row.
C14_Witness ==
    /\ pc = "done"
    /\ outcome = "raised"
    /\ details.missing_core_status # <<>>
    /\ details.failed_core_endpoints # <<>>
    /\ details.transfers_rows = 1
    /\ \E i \in 1..Len(statuses) : \E j \in (i+1)..Len(statuses) :
          /\ statuses[i].name = statuses[j].name
          /\ statuses[i].name \in Range(core)
          /\ ~statuses[i].success
          /\ statuses[j].success

(***************************************************************************)
(* Initial-capital inference: legacy/reports.py, infer_initial_capital.    *)
(***************************************************************************)

\* Bounds of the inference inputs: rows of the table, magnitude of an amount.
MaxInferRows == 2
MaxAmount == 2

Max(a, b) == IF a >= b THEN a ELSE b

Abs(a) == IF a < 0 THEN -a ELSE a

RECURSIVE SumSeq(_)
SumSeq(s) == IF s = <<>> THEN 0 ELSE s[1] + SumSeq(Tail(s))

\* Minimum of a non-empty sequence (Series.min).
RECURSIVE MinSeq(_)
MinSeq(s) == IF Len(s) = 1 THEN s[1]
             ELSE LET m == MinSeq(Tail(s)) IN IF s[1] <= m THEN s[1] ELSE m

\* Series.cumsum(): the running sums of the column in row order.
cumsum(s) == [i \in 1..Len(s) |-> SumSeq(SubSeq(s, 1, i))]

\* A numeric cell: a number, or missing (NaN, None, a non-numeric value).
NaN == [na |-> TRUE]

Num(n) == [na |-> FALSE, v |-> n]

\* pd.to_numeric(col, errors="coerce").fillna(0.0): a missing or non-numeric
\* cell counts as 0.
to_numeric_fillna(col) == [i \in 1..Len(col) |-> IF col[i].na THEN 0 ELSE col[i].v]

\* The signed_quote_value column of the unified table.
signed_column(df) == [i \in 1..Len(df) |-> df[i].signed_quote_value]

max_capital_proxy_mutant(df) ==
    LET running == cumsum(to_numeric_fillna(signed_column(df)))
    IN IF Len(running) > 0 THEN MinSeq(running) ELSE 0

\* max_capital_proxy = float(abs(running.min())) if len(running) else 0.0
max_capital_proxy(df) ==
    LET running == cumsum(to_numeric_fillna(signed_column(df)))
    IN IF Len(running) > 0 THEN Abs(MinSeq(running)) ELSE 0

negative_check_method_only_mutant(recon_estimate, proxy) ==
    IF recon_estimate < 0
    THEN [est |-> proxy, method |-> "max_exposure_proxy", confidence |-> "medium",
          caveats |-> <<"negative_replaced">>]
    ELSE [est |-> recon_estimate, method |-> "reconciliation",
          confidence |-> "medium", caveats |-> <<>>]

negative_check_mutant(recon_estimate, proxy) ==
    IF recon_estimate < 0
    THEN [est |-> 0, method |-> "max_exposure_proxy", confidence |-> "low",
          caveats |-> <<"negative_replaced">>]
    ELSE [est |-> recon_estimate, method |-> "reconciliation",
          confidence |-> "medium", caveats |-> <<>>]

\* recon_estimate, method and confidence after `if recon_estimate < 0:`.
negative_check(recon_estimate, proxy) ==
    IF recon_estimate < 0
    THEN [est |-> proxy, method |-> "max_exposure_proxy", confidence |-> "low",
          caveats |-> <<"negative_replaced">>]
    ELSE [est |-> recon_estimate, method |-> "reconciliation",
          confidence |-> "medium", caveats |-> <<>>]

no_deposit_check_mutant(r, nd, proxy) ==
    IF proxy > r.est
    THEN [est |-> proxy, method |-> "max_exposure_proxy", confidence |-> "low",
          caveats |-> Append(r.caveats, "no_deposits")]
    ELSE [r EXCEPT !.caveats = Append(r.caveats, "no_deposits")]

\* ... after `if net_deposits == 0:`.
no_deposit_check(r, nd, proxy) ==
    IF nd = 0
    THEN IF proxy > r.est
         THEN [est |-> proxy, method |-> "max_exposure_proxy", confidence |-> "low",
               caveats |-> Append(r.caveats, "no_deposits")]
         ELSE [r EXCEPT !.caveats = Append(r.caveats, "no_deposits")]
    ELSE r

\* ... after `if max_capital_proxy > 0:`.
proxy_caveat(r, proxy) ==
    IF proxy > 0 THEN [r EXCEPT !.caveats = Append(r.caveats, "proxy_observed")]
    ELSE r

infer_initial_capital_mutant(df, ee, nd, comps) ==
    LET proxy == max_capital_proxy(df)
        r == proxy_caveat(negative_check(ee - nd - comps, proxy), proxy)
    IN [estimated_beginning_equity |-> r.est, method |-> r.method,
        confidence |-> r.confidence,
        caveats |-> IF nd = 0 THEN <<"no_deposits">> \o r.caveats ELSE r.caveats]

\* infer_initial_capital(unified_df, ending_equity, net_deposits, net_pnl_components)
infer_initial_capital(df, ee, nd, comps) ==
    LET proxy == max_capital_proxy(df)
        r == proxy_caveat(no_deposit_check(negative_check(ee - nd - comps, proxy),
                                           nd, proxy), proxy)
    IN [estimated_beginning_equity |-> r.est, method |-> r.method,
        confidence |-> r.confidence, caveats |-> r.caveats]

\* Tables that carry only the signed quote-value column; a cell may be missing.
SignedRows ==
    [signed_quote_value : {Num(n) : n \in -MaxAmount..MaxAmount} \cup {NaN}]

Amounts == -MaxAmount..MaxAmount

InitInfer ==
    /\ pc = "infer"
    /\ NormUnused
    /\ GuardUnused
    /\ MergeUnused
    /\ SecurityUnused
    /\ unified_df \in SeqUpTo(SignedRows, MaxInferRows)
    /\ inputs \in [ending_equity : Amounts, net_deposits : Amounts,
                   net_pnl_components : Amounts]
    /\ balance_snapshot = None
    /\ inference = NoInference
    /\ report = None

CallInferInitialCapital ==
    /\ pc = "infer"
    /\ inference' = infer_initial_capital(unified_df, inputs.ending_equity,
                                          inputs.net_deposits,
                                          inputs.net_pnl_components)
    /\ pc' = "done"
    /\ UNCHANGED <<unified_df, balance_snapshot, inputs, report>>
    /\ UNCHANGED guardVars
    /\ UNCHANGED mergeVars
    /\ UNCHANGED normVars
    /\ UNCHANGED security

NextInfer == CallInferInitialCapital

SpecInfer == InitInfer /\ [][NextInfer]_vars

\* The reconciliation estimate of the call's arguments.
InputRecon ==
    inputs.ending_equity - inputs.net_deposits - inputs.net_pnl_components

C11_ReconciliationDefault ==
    (pc = "done" /\ InputRecon >= 0 /\ inputs.net_deposits # 0) =>
        /\ inference.estimated_beginning_equity = InputRecon
        /\ inference.method = "reconciliation"
        /\ inference.confidence = "medium"

\* C11 witness: a non-negative estimate with deposits, kept although the
\* exposure proxy is greater.
C11_Witness ==
    /\ pc = "done"
    /\ InputRecon >= 0
    /\ inputs.net_deposits # 0
    /\ max_capital_proxy(unified_df) > InputRecon
    /\ inference.estimated_beginning_equity = InputRecon
    /\ inference.method = "reconciliation"

\* The estimate, method and confidence that survive the negative-value check.
SurvivingEstimate ==
    IF InputRecon < 0 THEN max_capital_proxy(unified_df) ELSE InputRecon

SurvivingMethod == IF InputRecon < 0 THEN "max_exposure_proxy" ELSE "reconciliation"

SurvivingConfidence == IF InputRecon < 0 THEN "low" ELSE "medium"

\* C19 as stated, for infer_initial_capital: the exposure proxy equals
\* max(0, -m), m the minimum of the running sums of the signed quote values,
\* and is 0 when the running sum never goes below zero.
C19_ProxyIsMaxZeroNegMin ==
    pc = "done" =>
        LET running == cumsum(to_numeric_fillna(signed_column(unified_df)))
            expected == IF Len(running) > 0 THEN Max(0, -MinSeq(running)) ELSE 0
        IN /\ max_capital_proxy(unified_df) = expected
           /\ ("proxy_observed" \in Range(inference.caveats)) <=> (expected > 0)

\* C20: with net_deposits = 0 the high-uncertainty caveat is appended, and the
\* estimate becomes the exposure proxy (method "max_exposure_proxy",
\* confidence "low") exactly when the proxy is strictly greater than the
\* estimate that survived the negative-value check; otherwise estimate, method
\* and confidence stay as that check left them.
C20_NoDepositsFallback ==
    (pc = "done" /\ inputs.net_deposits = 0) =>
        /\ "no_deposits" \in Range(inference.caveats)
        /\ IF max_capital_proxy(unified_df) > SurvivingEstimate
           THEN /\ inference.estimated_beginning_equity = max_capital_proxy(unified_df)
                /\ inference.method = "max_exposure_proxy"
                /\ inference.confidence = "low"
           ELSE /\ inference.estimated_beginning_equity = SurvivingEstimate
                /\ inference.method = SurvivingMethod
                /\ inference.confidence = SurvivingConfidence

\* C20 witness: no deposits, a non-negative estimate smaller than the proxy,
\* replaced by it.
C20_Witness ==
    /\ pc = "done"
    /\ inputs.net_deposits = 0
    /\ InputRecon >= 0
    /\ max_capital_proxy(unified_df) > InputRecon
    /\ inference.estimated_beginning_equity = max_capital_proxy(unified_df)
    /\ inference.method = "max_exposure_proxy"

\* C20 witness of the other branch: no deposits, the proxy not greater, the
\* reconciliation estimate kept.
C20_WitnessKept ==
    /\ pc = "done"
    /\ inputs.net_deposits = 0
    /\ InputRecon > 0
    /\ max_capital_proxy(unified_df) <= InputRecon
    /\ inference.method = "reconciliation"
    /\ "no_deposits" \in Range(inference.caveats)

\* C28: for every input to infer_initial_capital, of either sign, the
\* returned estimated_beginning_equity is non-negative.
C28_EstimateNonNegative ==
    pc = "done" => inference.estimated_beginning_equity >= 0

\* C28 witness: a negative reconciliation estimate over a table whose running
\* sum goes below zero, answered with a positive estimate.
C28_Witness ==
    /\ pc = "done"
    /\ InputRecon < 0
    /\ Len(unified_df) > 0
    /\ MinSeq(cumsum(to_numeric_fillna(signed_column(unified_df)))) < 0
    /\ inference.estimated_beginning_equity > 0

\* C29: in every result of infer_initial_capital, method is
\* "max_exposure_proxy" exactly when confidence is "low", "reconciliation"
\* exactly when confidence is "medium", and confidence is never "high".
C29_MethodMatchesConfidence ==
    pc = "done" =>
        /\ inference.method = "max_exposure_proxy" <=> inference.confidence = "low"
        /\ inference.method = "reconciliation" <=> inference.confidence = "medium"
        /\ inference.confidence # "high"
        /\ inference.method \in {"max_exposure_proxy", "reconciliation"}

\* C29 witness: the proxy method with low confidence after a negative
\* reconciliation estimate.
C29_Witness ==
    /\ pc = "done"
    /\ InputRecon < 0
    /\ inference.method = "max_exposure_proxy"
    /\ inference.confidence = "low"

\* C29, the other pair: the reconciliation method with medium confidence.
C29_WitnessReconciliation ==
    /\ pc = "done"
    /\ inference.method = "reconciliation"
    /\ inference.confidence = "medium"

(***************************************************************************)
(* Profit report: legacy/reports.py, build_profit_report.                  *)
(***************************************************************************)

\* Bound of the reporter's input table.
MaxReportRows == 2

\* Column sums of a table: quote_value, fee_usd, funding_usd.
SumQuoteValue(df) == SumSeq([i \in 1..Len(df) |-> df[i].quote_value])

SumFeeUsd(df) == SumSeq([i \in 1..Len(df) |-> df[i].fee_usd])

SumFundingUsd(df) == SumSeq([i \in 1..Len(df) |-> df[i].funding_usd])

\* net_deposits: the quote value of the deposit rows minus that of the
\* withdraw rows, among the rows of event_group "transfer".
report_net_deposits(df) ==
    LET transfer_rows == SelectSeq(df, LAMBDA r : r.event_group = "transfer")
        deposits == SelectSeq(transfer_rows, LAMBDA r : r.event_subtype = "deposit")
        withdrawals == SelectSeq(transfer_rows, LAMBDA r : r.event_subtype = "withdraw")
    IN SumQuoteValue(deposits) - SumQuoteValue(withdrawals)

\* fees_plus_funding = -(fee_total + funding_total)
fees_plus_funding(df) == -(SumFeeUsd(df) + SumFundingUsd(df))

\* _token_sell_summary: token_sales_pnl = sale_proceeds, the quote value of the
\* sell rows (type "sell" stands for the label of a sell row) of a token pair
\* among the trade and liquidation rows.
token_sales_pnl(df) ==
    SumQuoteValue(SelectSeq(df, LAMBDA r : /\ r.pair = "LIT"
                                           /\ r.event_subtype \in {"trade", "liquidation"}
                                           /\ r.type = "sell"))

pnl_components_mutant(realized_pnl, unrealized_pnl, fpf, token) ==
    realized_pnl + unrealized_pnl + fpf

\* pnl_components = realized_pnl + unrealized_pnl + fees_plus_funding
\*                  + token_summary["token_sales_pnl"]
pnl_components(realized_pnl, unrealized_pnl, fpf, token) ==
    realized_pnl + unrealized_pnl + fpf + token

\* build_profit_report(unified_df, balance_snapshot): the summary's terms, the
\* inference and the reconciliation table (an ordered list of label, value).
build_profit_report(df, snap) ==
    LET nd == report_net_deposits(df)
        realized_pnl == snap.realized_pnl
        unrealized_pnl == snap.unrealized_pnl
        fpf == fees_plus_funding(df)
        token == token_sales_pnl(df)
        ee == snap.ending_equity
        init == infer_initial_capital(
                    df, ee, nd, pnl_components(realized_pnl, unrealized_pnl, fpf, token))
    IN [net_deposits |-> nd,
        realized_pnl |-> realized_pnl,
        unrealized_pnl |-> unrealized_pnl,
        fees_plus_funding |-> fpf,
        token_sales_pnl |-> token,
        ending_equity |-> ee,
        beginning_equity_estimate |-> init.estimated_beginning_equity,
        total_profit |-> ee - init.estimated_beginning_equity,
        initial_capital_inference |-> init,
        reconciliation |->
            << <<"BeginningEquity(estimated)", init.estimated_beginning_equity>>,
               <<"+NetDeposits", nd>>,
               <<"+RealizedPnL", realized_pnl>>,
               <<"+UnrealizedPnL", unrealized_pnl>>,
               <<"+TokenSalesPnL", token>>,
               <<"+FeesFunding(net)", fpf>>,
               <<"=EndingEquity", ee>> >>]

\* The signed quote value of a trade row: buys negative, sells positive,
\* minus fees, plus funding.
TradeSigned(type, q, fee, funding) ==
    (IF type = "buy" THEN -q ELSE q) - fee + funding

\* Transfer rows of the unified table.
ReportTransferRows ==
    {[event_group |-> "transfer", event_subtype |-> st, type |-> st, pair |-> None,
      quote_value |-> q, fee_usd |-> 0, funding_usd |-> 0,
      signed_quote_value |-> Num(0)] :
        st \in {"deposit", "withdraw"}, q \in {1, 2}}

\* Trade rows of the unified table.
ReportTradeRows ==
    {[event_group |-> "trade", event_subtype |-> "trade", type |-> t, pair |-> p,
      quote_value |-> q, fee_usd |-> f, funding_usd |-> 0,
      signed_quote_value |-> Num(TradeSigned(t, q, f, 0))] :
        t \in {"buy", "sell"}, p \in {"LIT", "ETH"}, q \in {1, 2}, f \in {0, 1}}

BalanceSnapshots ==
    [realized_pnl : {-1, 0, 1}, unrealized_pnl : {0, 1}, ending_equity : {0, 1, 3}]

InitReport ==
    /\ pc = "report"
    /\ NormUnused
    /\ GuardUnused
    /\ MergeUnused
    /\ SecurityUnused
    /\ unified_df \in SeqUpTo(ReportTransferRows \cup ReportTradeRows, MaxReportRows)
    /\ balance_snapshot \in BalanceSnapshots
    /\ inputs = None
    /\ inference = NoInference
    /\ report = None

\* df["date"] = ...; df["month"] = ...: the table with the two columns added.
with_date_columns(table) ==
    [i \in 1..Len(table) |->
        [f \in DOMAIN table[i] \cup {"date", "month"} |->
            IF f \in DOMAIN table[i] THEN table[i][f] ELSE None]]

report_frames_mutant(caller_df) ==
    [caller |-> with_date_columns(caller_df), local |-> with_date_columns(caller_df)]

\* df = unified_df.copy() and the column assignments on df: the caller's
\* table and the local one after them.
report_frames(caller_df) ==
    [caller |-> caller_df, local |-> with_date_columns(caller_df)]

CallBuildProfitReport ==
    /\ pc = "report"
    /\ report' = build_profit_report(unified_df, balance_snapshot)
    /\ inference' = report'.initial_capital_inference
    /\ unified_df' = report_frames(unified_df).caller
    /\ pc' = "done"
    /\ UNCHANGED <<balance_snapshot, inputs>>
    /\ UNCHANGED guardVars
    /\ UNCHANGED mergeVars
    /\ UNCHANGED normVars
    /\ UNCHANGED security

NextReport == CallBuildProfitReport

SpecReport == InitReport /\ [][NextReport]_vars

\* The sum of the ledger's entries before =EndingEquity, and the value of it.
LedgerSum ==
    SumSeq([i \in 1..(Len(report.reconciliation) - 1) |-> report.reconciliation[i][2]])

LedgerEnding == report.reconciliation[Len(report.reconciliation)][2]

l1_address == ""

\* explorer_params = [str(account_index)] (+ [l1_address] when it is set)
explorer_params == IF l1_address = "" THEN <<"0">> ELSE <<"0", l1_address>>

\* Outcomes of one endpoint request: an exception, or a batch of n records.
Failure == [ok |-> FALSE, n |-> 0]

Batch(n) == [ok |-> TRUE, n |-> n]

\* Outcomes drawn for a core endpoint and for an optional one.
CoreOutcomes == {Failure, Batch(0), Batch(1)}

OptionalOutcomes == {Failure, Batch(1)}

\* EndpointStatus(name, True, len(batch), "") in the try branch,
\* EndpointStatus(name, False, 0, str(exc)) in the except branch.
status_of(name, o) ==
    IF o.ok THEN [name |-> name, success |-> TRUE, records |-> o.n, error |-> ""]
    ELSE [name |-> name, success |-> FALSE, records |-> 0, error |-> "exc"]

\* The status of the preferred trades endpoint: an empty collection is
\* recorded as a failure ("empty trades response").
trades_status_of(o) ==
    IF o.ok /\ o.n = 0
    THEN [name |-> "trades", success |-> FALSE, records |-> 0,
          error |-> "empty trades response"]
    ELSE status_of("trades", o)

\* The rows one endpoint contributes to a table.
rows_of(name, o) == [i \in 1..o.n |-> [source |-> name]]

\* fetch_transfers: the three v1 endpoints in order, then the explorer logs.
transfer_endpoints == <<"deposit/history", "withdraw/history", "l1Metadata">>

explorer_transfer_names ==
    [i \in 1..Len(explorer_params) |-> "explorer.logs[" \o explorer_params[i] \o "]"]

explorer_trade_names ==
    [i \in 1..Len(explorer_params) |-> "explorer.trade_logs[" \o explorer_params[i] \o "]"]

explorer_airdrop_names ==
    [i \in 1..Len(explorer_params) |-> "explorer.airdrop[" \o explorer_params[i] \o "]"]

\* candidate_endpoints of fetch_balance_history, after the current snapshot.
balance_endpoints == <<"account", "account/balanceHistory", "account/history",
                       "balance/history">>

statuses_for_success_only_mutant(names, os) ==
    SelectSeq([i \in 1..Len(names) |-> status_of(names[i], os[i])], LAMBDA st : st.success)

RECURSIVE statuses_for_mutant(_, _)
statuses_for_mutant(names, os) ==
    IF names = <<>> THEN <<>>
    ELSE IF ~os[1].ok THEN <<status_of(names[1], os[1])>>
    ELSE <<status_of(names[1], os[1])>> \o statuses_for_mutant(Tail(names), Tail(os))

\* The statuses a fetcher appends for its endpoints, one per attempt, and the
\* rows it collects, given the outcome of each attempt.
statuses_for(names, os) == [i \in 1..Len(names) |-> status_of(names[i], os[i])]

RECURSIVE rows_for(_, _)
rows_for(names, os) ==
    IF names = <<>> THEN <<>>
    ELSE rows_of(names[1], os[1]) \o rows_for(Tail(names), Tail(os))

after_guard_mutant(raised) == "infer"

\* Where main continues after the guard: the RuntimeError leaves main.
after_guard(raised) == IF raised THEN "aborted" ELSE "infer"

InitMain ==
    /\ pc = "fetch_transfers"
    /\ NormUnused
    /\ ReportUnused
    /\ MergeUnused
    /\ SecurityUnused
    /\ statuses = <<>>
    /\ transfers = <<>>
    /\ trades = <<>>
    /\ outcome = "pending"
    /\ details = NoDetails
    /\ balances = <<>>
    /\ airdrops = <<>>
    /\ steps = <<>>
    /\ files = {}

\* transfers = fetch_transfers(client)
FetchTransfers ==
    /\ pc = "fetch_transfers"
    /\ \E os \in [1..Len(transfer_endpoints) -> CoreOutcomes],
          es \in [1..Len(explorer_params) -> OptionalOutcomes] :
          /\ statuses' = statuses \o statuses_for(transfer_endpoints, os)
                                  \o statuses_for(explorer_transfer_names, es)
          /\ transfers' = rows_for(transfer_endpoints, os)
                            \o rows_for(explorer_transfer_names, es)
    /\ steps' = Append(steps, "fetch_transfers")
    /\ pc' = "fetch_trades"
    /\ UNCHANGED <<trades, balances, airdrops, outcome, details, files>>
    /\ UNCHANGED reportVars
    /\ UNCHANGED mergeVars
    /\ UNCHANGED normVars
    /\ UNCHANGED security

\* trades = fetch_trades(client)
FetchTrades ==
    /\ pc = "fetch_trades"
    /\ \E o \in CoreOutcomes, a \in OptionalOutcomes,
          es \in [1..Len(explorer_params) -> OptionalOutcomes] :
          /\ statuses' = statuses \o <<trades_status_of(o), status_of("accountTrades", a)>>
                                  \o statuses_for(explorer_trade_names, es)
          /\ trades' = rows_of("trades", o) \o rows_of("accountTrades", a)
                         \o rows_for(explorer_trade_names, es)
    /\ steps' = Append(steps, "fetch_trades")
    /\ pc' = "fetch_balances"
    /\ UNCHANGED <<transfers, balances, airdrops, outcome, details, files>>
    /\ UNCHANGED reportVars
    /\ UNCHANGED mergeVars
    /\ UNCHANGED normVars
    /\ UNCHANGED security

\* balances = fetch_balance_history(client)
FetchBalanceHistory ==
    /\ pc = "fetch_balances"
    /\ \E os \in [1..Len(balance_endpoints) -> OptionalOutcomes] :
          /\ statuses' = statuses \o statuses_for(balance_endpoints, os)
          /\ balances' = rows_for(balance_endpoints, os)
    /\ steps' = Append(steps, "fetch_balances")
    /\ pc' = "fetch_airdrops"
    /\ UNCHANGED <<transfers, trades, airdrops, outcome, details, files>>
    /\ UNCHANGED reportVars
    /\ UNCHANGED mergeVars
    /\ UNCHANGED normVars
    /\ UNCHANGED security

\* airdrops = fetch_airdrops_and_token_transfers(client, transfers)
FetchAirdrops ==
    /\ pc = "fetch_airdrops"
    /\ \E es \in [1..Len(explorer_params) -> OptionalOutcomes] :
          /\ statuses' = statuses \o statuses_for(explorer_airdrop_names, es)
          /\ airdrops' = rows_for(explorer_airdrop_names, es)
    /\ steps' = Append(steps, "fetch_airdrops")
    /\ pc' = "guard"
    /\ UNCHANGED <<transfers, trades, balances, outcome, details, files>>
    /\ UNCHANGED reportVars
    /\ UNCHANGED mergeVars
    /\ UNCHANGED normVars
    /\ UNCHANGED security

\* _ensure_api_coverage(client.endpoint_statuses, transfers=transfers, trades=trades)
CoverageGuard ==
    /\ pc = "guard"
    /\ LET raised == coverage_insufficient(statuses, transfers, trades)
       IN /\ outcome' = IF raised THEN "raised" ELSE "returned"
          /\ details' = IF raised THEN coverage_details(statuses, transfers, trades)
                        ELSE details
          /\ pc' = after_guard(raised)
    /\ steps' = Append(steps, "guard")
    /\ UNCHANGED <<statuses, transfers, trades, balances, airdrops, files>>
    /\ UNCHANGED reportVars
    /\ UNCHANGED mergeVars
    /\ UNCHANGED normVars
    /\ UNCHANGED security

\* transfers, inference_info = infer_initial_deposit_if_missing(...): the
\* returned table has the synthetic deposit first when one is injected, which
\* needs a timestamp in some table and depends on the amounts of the rows.
InferInitialDeposit ==
    /\ pc = "infer"
    /\ \E injected \in BOOLEAN :
          /\ injected => (transfers # <<>> \/ trades # <<>> \/ balances # <<>>)
          /\ transfers' = IF injected THEN <<[source |-> "inference"]>> \o transfers
                          ELSE transfers
    /\ steps' = Append(steps, "infer")
    /\ pc' = "verify"
    /\ UNCHANGED <<statuses, trades, balances, airdrops, outcome, details, files>>
    /\ UNCHANGED reportVars
    /\ UNCHANGED mergeVars
    /\ UNCHANGED normVars
    /\ UNCHANGED security

\* verification = deposit_verification_summary(...)
DepositVerification ==
    /\ pc = "verify"
    /\ steps' = Append(steps, "verify")
    /\ pc' = "timeline"
    /\ UNCHANGED <<statuses, transfers, trades, balances, airdrops, outcome,
                   details, files>>
    /\ UNCHANGED reportVars
    /\ UNCHANGED mergeVars
    /\ UNCHANGED normVars
    /\ UNCHANGED security

\* reconstructed = build_reconstructed_schema(...), sorted and numbered.
BuildReconstructed ==
    /\ pc = "timeline"
    /\ steps' = Append(steps, "timeline")
    /\ pc' = "export_csv"
    /\ UNCHANGED <<statuses, transfers, trades, balances, airdrops, outcome,
                   details, files>>
    /\ UNCHANGED reportVars
    /\ UNCHANGED mergeVars
    /\ UNCHANGED normVars
    /\ UNCHANGED security

\* output.to_csv(reconstructed_csv_path, index=False)
ExportCsv ==
    /\ pc = "export_csv"
    /\ files' = files \cup {"reconstructed_full_history.csv"}
    /\ steps' = Append(steps, "export_csv")
    /\ pc' = "export_diagnostics"
    /\ UNCHANGED <<statuses, transfers, trades, balances, airdrops, outcome, details>>
    /\ UNCHANGED reportVars
    /\ UNCHANGED mergeVars
    /\ UNCHANGED normVars
    /\ UNCHANGED security

\* The profit snapshot, then the diagnostics and endpoint-status JSON files.
ExportDiagnostics ==
    /\ pc = "export_diagnostics"
    /\ files' = files \cup {"reconstruction_diagnostics.json", "endpoint_statuses.json"}
    /\ steps' = Append(steps, "export_diagnostics")
    /\ pc' = "done"
    /\ UNCHANGED <<statuses, transfers, trades, balances, airdrops, outcome, details>>
    /\ UNCHANGED reportVars
    /\ UNCHANGED mergeVars
    /\ UNCHANGED normVars
    /\ UNCHANGED security

NextMain ==
    \/ FetchTransfers
    \/ FetchTrades
    \/ FetchBalanceHistory
    \/ FetchAirdrops
    \/ CoverageGuard
    \/ InferInitialDeposit
    \/ DepositVerification
    \/ BuildReconstructed
    \/ ExportCsv
    \/ ExportDiagnostics

SpecMain == InitMain /\ [][NextMain]_vars

\* The position of a step in the run so far (0 when it has not run).
StepIndex(name) ==
    IF \E i \in 1..Len(steps) : steps[i] = name
    THEN CHOOSE i \in 1..Len(steps) : steps[i] = name
    ELSE 0

FetchSteps == {"fetch_transfers", "fetch_trades", "fetch_balances", "fetch_airdrops"}

LaterSteps == {"infer", "verify", "timeline", "export_csv", "export_diagnostics"}

\* C4: the coverage guard is evaluated only after all four fetch steps have
\* finished and before inference, verification, timeline construction and
\* any export; if it aborts, none of those steps runs and no file is written.
C4_GuardGatesPipeline ==
    /\ StepIndex("guard") > 0 =>
          \A f \in FetchSteps : 0 < StepIndex(f) /\ StepIndex(f) < StepIndex("guard")
    /\ \A s \in LaterSteps :
          StepIndex(s) > 0 =>
              /\ 0 < StepIndex("guard")
              /\ StepIndex("guard") < StepIndex(s)
              /\ outcome = "returned"
    /\ files # {} => (outcome = "returned" /\ StepIndex("guard") > 0)
    /\ outcome = "raised" =>
          /\ pc = "aborted"
          /\ files = {}
          /\ \A s \in LaterSteps : StepIndex(s) = 0

\* C4 witness: a run the guard aborted, after all four fetch steps.
C4_Witness ==
    /\ outcome = "raised"
    /\ pc = "aborted"
    /\ \A f \in FetchSteps : StepIndex(f) > 0

\* C4 witness of the other branch: a run that wrote its files after the guard.
C4_WitnessCompleted ==
    /\ pc = "done"
    /\ outcome = "returned"
    /\ "reconstructed_full_history.csv" \in files

\* The endpoint names each fetcher attempts, in its order.
fetcher_endpoints(step) ==
    CASE step = "fetch_transfers" -> transfer_endpoints \o explorer_transfer_names
      [] step = "fetch_trades" -> <<"trades", "accountTrades">> \o explorer_trade_names
      [] step = "fetch_balances" -> balance_endpoints
      [] step = "fetch_airdrops" -> explorer_airdrop_names
      [] OTHER -> <<>>

\* The endpoint names attempted by the steps done so far.
RECURSIVE attempted_endpoints(_)
attempted_endpoints(done) ==
    IF done = <<>> THEN <<>>
    ELSE fetcher_endpoints(done[1]) \o attempted_endpoints(Tail(done))

\* A status record of a success with its count, or of a failure with count 0
\* and the error text.
StatusWellFormed(s) ==
    \/ s.success /\ s.records >= 0 /\ s.error = ""
    \/ ~s.success /\ s.records = 0 /\ s.error # ""

C27_CoreAlwaysAttempted ==
    /\ (pc = "guard" \/ "guard" \in Range(steps)) =>
          \A k \in 1..Len(core) : CoreHasRecord(core[k])
    /\ outcome = "raised" =>
          /\ details.missing_core_status = <<>>
          /\ Len(transfers) = 0
          /\ Len(trades) = 0
          /\ \A k \in 1..Len(core) : CoreRecordFailed(core[k])

\* C27 witness: a run the guard aborted with all four core names recorded,
\* each as failed.
C27_Witness ==
    /\ pc = "aborted"
    /\ outcome = "raised"
    /\ details.missing_core_status = <<>>
    /\ Len(details.failed_core_endpoints) = Len(core)
    /\ \A k \in 1..Len(core) : CoreHasRecord(core[k])

\* C15 as stated: after fetch_balance_history has returned, the balance table
\* holds at least one snapshot row, whatever endpoints succeeded or failed.
C15_BalanceTableNonEmpty ==
    "fetch_balances" \in Range(steps) => Len(balances) >= 1

\* The part of C15 that holds: the table has a row of the current state
\* whenever the account endpoint answered.
BalanceRowWhenAccountAnswers ==
    ("fetch_balances" \in Range(steps)
        /\ \E i \in 1..Len(statuses) : statuses[i].name = "account" /\ statuses[i].success)
    => \E k \in 1..Len(balances) : balances[k].source = "account"

(***************************************************************************)
(* Dedup and sort of a fetched table: the tail of fetch_trades,            *)
(* fetch_transfers and fetch_balance_history.                              *)
(* A table is a sequence of entries [index, orig, row]: index is the       *)
(* positional label, orig the position the row had in the concatenated     *)
(* input (kept to state properties), row the normalized record.  A         *)
(* timestamp is Num(t) or NaN (NaT).                                       *)
(***************************************************************************)

\* Bound of the concatenated input of one merge.
MaxMergeRows == 3

Streams == {"trades", "transfers", "balances"}

\* Normalized rows of each stream; source (trades, transfers) and
\* available_balance_quote (balances) are not part of the dedup key.
MergeTradeRows ==
    [timestamp : {Num(1), Num(2), NaN}, side : {"buy", "sell"}, market : {"ETH"},
     size : {1}, price : {1}, tx_hash : {"h1"}, source : {"trades", "accountTrades"}]

MergeTransferRows ==
    [timestamp : {Num(1), Num(2), NaN}, event_type : {"deposit", "withdraw"},
     asset : {"USDC"}, amount_quote : {1}, tx_hash : {"h1"},
     source : {"deposit/history", "explorer.logs[0]"}]

\* _snapshot_row replaces a missing timestamp by the current time, so a
\* balance row always has one.
MergeBalanceRows ==
    [timestamp : {Num(1), Num(2)}, total_asset_value_quote : {1, 2},
     collateral_quote : {1}, source : {"account"}, available_balance_quote : {0, 1}]

MergeRowsOf(s) ==
    CASE s = "trades" -> MergeTradeRows
      [] s = "transfers" -> MergeTransferRows
      [] s = "balances" -> MergeBalanceRows

\* The subset= columns of drop_duplicates in each fetcher.
dedup_key(s, r) ==
    CASE s = "trades" -> <<r.timestamp, r.side, r.market, r.size, r.price, r.tx_hash>>
      [] s = "transfers" ->
            <<r.timestamp, r.event_type, r.asset, r.amount_quote, r.tx_hash>>
      [] s = "balances" ->
            <<r.timestamp, r.total_asset_value_quote, r.collateral_quote, r.source>>
      [] s = "airdrops" -> <<r.timestamp, r.asset, r.quantity, r.event_type, r.source>>

\* df = pd.DataFrame(rows): the rows in insertion order, labelled 0..n-1.
DataFrame(rs) == [i \in 1..Len(rs) |-> [index |-> i - 1, orig |-> i, row |-> rs[i]]]

drop_duplicates_mutant(df, s) ==
    LET keep(i) == \A j \in 1..(i-1) : dedup_key(s, df[j].row) # dedup_key(s, df[i].row)
        kept == {i \in 1..Len(df) : keep(i)}
        nth(k) == CHOOSE i \in kept : Cardinality({j \in kept : j < i}) = k - 1
    IN [k \in 1..Cardinality(kept) |-> df[nth(k)]]

\* df.drop_duplicates(subset=..., keep="last"): a row stays when no later row
\* has its key; the rows kept stay in order.
drop_duplicates(df, s) ==
    LET keep(i) ==
            \A j \in (i+1)..Len(df) : dedup_key(s, df[j].row) # dedup_key(s, df[i].row)
        kept == {i \in 1..Len(df) : keep(i)}
        nth(k) == CHOOSE i \in kept : Cardinality({j \in kept : j < i}) = k - 1
    IN [k \in 1..Cardinality(kept) |-> df[nth(k)]]

\* df.sort_values("timestamp"): ascending, the rows without a timestamp last
\* in their order (na_position="last").  The default kind="quicksort" is not
\* a stable sort: rows with equal timestamps may come out in any order, so
\* every ascending arrangement is a possible result.
sort_values(df) ==
    LET valid == SelectSeq(df, LAMBDA e : ~e.row.timestamp.na)
        nat == SelectSeq(df, LAMBDA e : e.row.timestamp.na)
        n == Len(valid)
        ascending(p) ==
            \A i \in 1..n : \A j \in (i+1)..n :
                valid[p[i]].row.timestamp.v <= valid[p[j]].row.timestamp.v
    IN {[i \in 1..n |-> valid[p[i]]] \o nat : p \in {q \in Permutations(1..n) : ascending(q)}}

\* df.reset_index(drop=True)
reset_index(df) == [i \in 1..Len(df) |-> [df[i] EXCEPT !.index = i - 1]]

\* The tables the dedup-and-sort step can return for the collected rows.
dedup_and_sort(rs, s) ==
    {reset_index(t) : t \in sort_values(drop_duplicates(DataFrame(rs), s))}

\* The rows of a table, in order.
RowsOf(df) == [i \in 1..Len(df) |-> df[i].row]

\* The rows and positional labels of a table, without the orig bookkeeping.
Content(df) == [i \in 1..Len(df) |-> <<df[i].index, df[i].row>>]

InitMerge ==
    /\ pc = "merge"
    /\ NormUnused
    /\ GuardUnused
    /\ ReportUnused
    /\ SecurityUnused
    /\ stream \in Streams
    /\ rows \in SeqUpTo(MergeRowsOf(stream), MaxMergeRows)
    /\ merged = <<>>
    /\ remerged = <<>>

\* The end of a fetcher: df = pd.DataFrame(rows), drop_duplicates, sort_values,
\* reset_index.
DedupAndSort ==
    /\ pc = "merge"
    /\ merged' \in dedup_and_sort(rows, stream)
    /\ pc' = "merged"
    /\ UNCHANGED <<stream, rows, remerged>>
    /\ UNCHANGED guardVars
    /\ UNCHANGED reportVars
    /\ UNCHANGED normVars
    /\ UNCHANGED security

\* The merged table concatenated with a copy of itself, through the same step.
SelfMerge ==
    /\ pc = "merged"
    /\ remerged' \in dedup_and_sort(RowsOf(merged) \o RowsOf(merged), stream)
    /\ pc' = "remerged"
    /\ UNCHANGED <<stream, rows, merged>>
    /\ UNCHANGED guardVars
    /\ UNCHANGED reportVars
    /\ UNCHANGED normVars
    /\ UNCHANGED security

NextMerge == DedupAndSort \/ SelfMerge

SpecMerge == InitMerge /\ [][NextMerge]_vars

\* C5 as stated: a returned table has non-decreasing timestamps from first to
\* last row (rows without a timestamp last), positional indices 0..n-1 in that
\* order, and two rows with equal timestamps keep the relative order they had
\* before the sort.
C5_SortedAndStable ==
    pc = "merged" =>
        /\ \A i \in 1..Len(merged) : merged[i].index = i - 1
        /\ \A i \in 1..Len(merged) : \A j \in (i+1)..Len(merged) :
              /\ merged[i].row.timestamp.na => merged[j].row.timestamp.na
              /\ (~merged[i].row.timestamp.na /\ ~merged[j].row.timestamp.na) =>
                    merged[i].row.timestamp.v <= merged[j].row.timestamp.v
              /\ merged[i].row.timestamp = merged[j].row.timestamp => merged[i].orig < merged[j].orig

\* C6: after the merge no two rows of the table share a dedup key, every key
\* of the concatenated input survives, and the surviving row of a key is the
\* row of that key that was appended last.
C6_DedupLastWins ==
    pc = "merged" =>
        /\ \A i \in 1..Len(merged) : \A j \in 1..Len(merged) :
              i # j => dedup_key(stream, merged[i].row) # dedup_key(stream, merged[j].row)
        /\ \A k \in 1..Len(rows) :
              \E i \in 1..Len(merged) : dedup_key(stream, merged[i].row) = dedup_key(stream, rows[k])
        /\ \A i \in 1..Len(merged) :
              /\ merged[i].orig \in 1..Len(rows)
              /\ merged[i].row = rows[merged[i].orig]
              /\ \A k \in 1..Len(rows) :
                    dedup_key(stream, rows[k]) = dedup_key(stream, merged[i].row)
                        => k <= merged[i].orig

\* C6 witness: a key that occurred twice with different rows, of which the
\* later one survived.
C6_Witness ==
    /\ pc = "merged"
    /\ \E i \in 1..Len(merged) : \E k \in 1..Len(rows) :
          /\ k < merged[i].orig
          /\ dedup_key(stream, rows[k]) = dedup_key(stream, merged[i].row)
          /\ rows[k] # merged[i].row

\* C7 as stated: a merged table concatenated with a copy of itself and put
\* through the same dedup and sort step comes out equal to itself.
C7_SelfMergeIdempotent ==
    pc = "remerged" => Content(remerged) = Content(merged)

(***************************************************************************)
(* Trade side resolution: extractors/trades.py, _resolve_side.             *)
(* A raw field value is [str, truthy]: its str() rendering and its truth   *)
(* value; an absent key reads as None.                                     *)
(***************************************************************************)

PyNone == [str |-> "None", truthy |-> FALSE]

PyStr(s) == [str |-> s, truthy |-> s # ""]

PyBool(b) == [str |-> IF b THEN "True" ELSE "False", truthy |-> b]

\* str(n) of a small integer.
IntStr(n) == CASE n = 0 -> "0" [] n = 1 -> "1" [] n = 2 -> "2" [] OTHER -> "3"

PyInt(n) == [str |-> IntStr(n), truthy |-> n # 0]

\* a or b
PyOr(a, b) == IF a.truthy THEN a ELSE b

\* str.lower() on the renderings that occur.
Lower(s) ==
    CASE s = "B" -> "b"
      [] s = "BID" -> "bid"
      [] s = "Buy" -> "buy"
      [] s = "Ask" -> "ask"
      [] s = "SELL" -> "sell"
      [] s = "True" -> "true"
      [] s = "False" -> "false"
      [] s = "None" -> "none"
      [] s = "L1Deposit" -> "l1deposit"
      [] s = "Withdraw" -> "withdraw"
      [] s = "L2Transfer" -> "l2transfer"
      [] s = "Airdrop" -> "airdrop"
      [] s = "Liquidation" -> "liquidation"
      [] s = "Mint" -> "mint"
      [] s = "Out_Of_Scope" -> "out_of_scope"
      [] OTHER -> s

resolve_side_mutant(r, me) ==
    LET side == PyOr(PyOr(PyOr(r.side, r.direction), r.trade_side), PyStr("")).str
    IN IF side \in {"b", "bid"} THEN "buy"
       ELSE IF side \in {"s", "ask"} THEN "sell"
       ELSE IF Lower(side) \in {"buy", "sell"} THEN side
       ELSE ""

\* _resolve_side(raw, account_index)
resolve_side(r, me) ==
    LET side == Lower(PyOr(PyOr(PyOr(r.side, r.direction), r.trade_side), PyStr("")).str)
        is_taker_ask == Lower(r.is_taker_ask.str)
        taker_idx == PyOr(r.taker_account_index, PyStr("")).str
        maker_idx == PyOr(r.maker_account_index, PyStr("")).str
        taker_side == IF is_taker_ask \in {"1", "true"} THEN "sell" ELSE "buy"
    IN IF side \in {"b", "bid"} THEN "buy"
       ELSE IF side \in {"s", "ask"} THEN "sell"
       ELSE IF side \in {"buy", "sell"} THEN side
       ELSE IF is_taker_ask \notin {"1", "true", "0", "false"} THEN "unknown"
       ELSE IF taker_idx # "" /\ taker_idx = IntStr(me) THEN taker_side
       ELSE IF maker_idx # "" /\ maker_idx = IntStr(me)
            THEN (IF taker_side = "sell" THEN "buy" ELSE "sell")
       ELSE taker_side

\* account_index values, of the settings and of a record's taker and maker.
AccountIndexes == {0, 1, 2}

\* Raw trade records as far as _resolve_side reads them.
SideRaws ==
    [side : {PyNone, PyStr(""), PyStr("Buy"), PyStr("s"), PyStr("long")},
     direction : {PyNone, PyStr("BID"), PyStr("SELL")},
     trade_side : {PyNone, PyStr("Ask"), PyStr("B")},
     is_taker_ask : {PyNone, PyBool(TRUE), PyBool(FALSE), PyInt(1), PyInt(0),
                     PyStr("true"), PyStr("maybe")},
     taker_account_index : {PyNone} \cup {PyInt(n) : n \in AccountIndexes},
     maker_account_index : {PyNone} \cup {PyInt(n) : n \in AccountIndexes}]

InitSide ==
    /\ pc = "resolve_side"
    /\ GuardUnused
    /\ ReportUnused
    /\ MergeUnused
    /\ SecurityUnused
    /\ raw \in SideRaws
    /\ account_index \in AccountIndexes
    /\ result = None
    /\ tables = None
    /\ timeline = None

CallResolveSide ==
    /\ pc = "resolve_side"
    /\ result' = resolve_side(raw, account_index)
    /\ pc' = "done"
    /\ UNCHANGED <<raw, account_index, tables, timeline>>
    /\ UNCHANGED guardVars
    /\ UNCHANGED reportVars
    /\ UNCHANGED mergeVars
    /\ UNCHANGED security

NextSide == CallResolveSide

SpecSide == InitSide /\ [][NextSide]_vars

\* C8: for every raw trade record and account index, _resolve_side returns
\* exactly one of "buy", "sell", "unknown", never an empty string.
C8_SideIsBuySellUnknown ==
    pc = "done" => (result \in {"buy", "sell", "unknown"} /\ result # "")

\* C8 witness: no recognized explicit side and no usable is_taker_ask, resolved
\* as "unknown".
C8_Witness ==
    /\ pc = "done"
    /\ raw.side = PyStr("long")
    /\ raw.direction = PyNone
    /\ raw.trade_side = PyNone
    /\ raw.is_taker_ask = PyStr("maybe")
    /\ result = "unknown"

\* The explicit side string _resolve_side reads, in lower case.
ExplicitSide ==
    Lower(PyOr(PyOr(PyOr(raw.side, raw.direction), raw.trade_side), PyStr("")).str)

\* The side of the taker by a boolean is_taker_ask.
TakerSide == IF raw.is_taker_ask = PyBool(TRUE) THEN "sell" ELSE "buy"

\* The side of the local account by its role in the trade.
SideByRole ==
    IF raw.taker_account_index = PyInt(account_index) THEN TakerSide
    ELSE IF raw.maker_account_index = PyInt(account_index)
         THEN (IF TakerSide = "sell" THEN "buy" ELSE "sell")
    ELSE TakerSide

\* C21 as stated: without a recognized explicit side and with a boolean
\* is_taker_ask, for every integer account index, _resolve_side returns the
\* taker side for the taker, the opposite side for the maker, and the taker
\* side when the account is neither.
C21_SideByRole ==
    (/\ pc = "done"
     /\ ExplicitSide \notin {"b", "bid", "s", "ask", "buy", "sell"}
     /\ raw.is_taker_ask \in {PyBool(TRUE), PyBool(FALSE)})
        => result = SideByRole

\* What holds: the same for every account index other than 0.
SideByRoleNonZeroAccount ==
    (/\ pc = "done"
     /\ ExplicitSide \notin {"b", "bid", "s", "ask", "buy", "sell"}
     /\ raw.is_taker_ask \in {PyBool(TRUE), PyBool(FALSE)}
     /\ account_index # 0)
        => result = SideByRole

(***************************************************************************)
(* Normalization of raw records: api_client.py (parse_timestamp,           *)
(* to_float), extractors/trades.py (_normalize_trade),                     *)
(* extractors/transfers.py (_normalize) and extractors/airdrops.py.        *)
(* A raw number is Num(n) or NaN (None / key absent); a raw timestamp is   *)
(* [form, t]: the JSON form it arrives in and the second it denotes.       *)
(***************************************************************************)

NumTruthy(x) == ~x.na /\ x.v # 0

\* a or b, on raw numbers
NumOr(a, b) == IF NumTruthy(a) THEN a ELSE b

\* to_float(value, default)
to_float(value, default) == IF value.na THEN default ELSE value.v

\* Raw timestamps.  "int" is a number of seconds, "int_ms" a number of
\* milliseconds above 10_000_000_000, "int_out_of_range" a number whose
\* thousandth is still beyond year 9999 (microseconds, nanoseconds),
\* "digits10" / "digits13" a string of that many digits, "iso" a string in one
\* of the accepted date formats, "text" any other non-empty string.
TimeValue(form, t) == [form |-> form, t |-> t]

TimeNone == TimeValue("none", 0)

TimeTruthy(x) == ~(x.form \in {"none", "empty"} \/ (x.form = "int" /\ x.t = 0))

\* a or b, on raw timestamps
TimeOr(a, b) == IF TimeTruthy(a) THEN a ELSE b

\* parse_timestamp(value): the datetime (as its second), None, or the
\* ValueError / OverflowError / OSError of datetime.fromtimestamp, which the
\* numeric branch does not catch.
parse_timestamp(value) ==
    CASE value.form = "none" -> [raised |-> FALSE, ts |-> NaN]
      [] value.form \in {"int", "int_ms"} -> [raised |-> FALSE, ts |-> Num(value.t)]
      [] value.form = "int_out_of_range" -> [raised |-> TRUE, ts |-> NaN]
      [] value.form = "empty" -> [raised |-> FALSE, ts |-> NaN]
      [] value.form \in {"digits10", "digits13"} -> [raised |-> FALSE, ts |-> Num(value.t)]
      [] value.form = "iso" -> [raised |-> FALSE, ts |-> Num(value.t)]
      [] OTHER -> [raised |-> FALSE, ts |-> NaN]

\* sub in s, on the strings that occur.
Contains(s, sub) ==
    CASE sub = "liq" -> s \in {"liq", "liquidation"}
      [] sub = "deposit" -> s \in {"deposit", "l1deposit"}
      [] sub = "withdraw" -> s \in {"withdraw", "l1withdraw"}
      [] sub = "transfer" -> s \in {"transfer", "l2transfer"}
      [] sub = "airdrop" -> s \in {"airdrop"}
      [] sub = "LIT" -> s \in {"LIT"}
      [] sub = "LIGHTER" -> s \in {"LIGHTER"}
      [] OTHER -> FALSE

\* The market_id -> symbol mapping of the orderBooks endpoint.
market_map == (0 :> "ETH") @@ (1 :> "LIT")

\* The market of a raw trade: symbol, overridden by the mapped symbol of
\* market_index, else "market_<index>".
trade_market(r) ==
    LET market_index == NumOr(r.market_index, r.market_id)
        mapped == IF ~market_index.na /\ market_index.v \in DOMAIN market_map
                  THEN PyStr(market_map[market_index.v]) ELSE PyNone
        market == IF mapped.truthy THEN mapped ELSE r.symbol
    IN IF ~market.truthy /\ ~market_index.na
       THEN "market_" \o IntStr(market_index.v)
       ELSE PyOr(market, PyStr("")).str

\* fee_quote of a raw trade, in 1/10000 of the quote unit (bps are 1/10000).
trade_fee_quote(r, side, notional) ==
    LET maker_fee_bps == to_float(r.maker_fee, 0)
        taker_fee_bps == to_float(r.taker_fee, 0)
        explicit_fee == to_float(NumOr(r.fee, r.fee_usd), 0)
        bps == IF side \in {"buy", "sell"} THEN taker_fee_bps ELSE maker_fee_bps
    IN IF explicit_fee = 0 /\ notional # 0 /\ bps # 0
       THEN notional * bps
       ELSE explicit_fee * 10000

\* The notional _normalize_trade computes before taking its absolute value.
trade_notional(r) ==
    LET size == to_float(NumOr(NumOr(r.size, r.quantity), r.filled_size), 0)
        price == to_float(r.price, 0)
        given == to_float(NumOr(r.notional, r.quote_qty), 0)
    IN IF given = 0 /\ size # 0 /\ price # 0 THEN Abs(size * price) ELSE given

\* _compute_trade_fee_usd(row) of lighter_txlog.py with ACCOUNT_INDEX = me,
\* in 1/10000 of the quote unit; the rows drawn have no usd_amount.
compute_trade_fee_usd(r, me) ==
    LET taker_idx == PyOr(r.taker_account_index, PyStr("")).str
        maker_idx == PyOr(r.maker_account_index, PyStr("")).str
        fee_bps == IF IntStr(me) = taker_idx THEN to_float(r.taker_fee, 0)
                   ELSE IF IntStr(me) = maker_idx THEN to_float(r.maker_fee, 0)
                   ELSE to_float(r.taker_fee, 0)
        size == NumOr(r.size, r.quantity)
        notional == IF NumTruthy(size) /\ NumTruthy(r.price)
                    THEN Abs(size.v * r.price.v) ELSE 0
    IN IF to_float(r.fee, 0) # 0 THEN Abs(r.fee.v) * 10000
       ELSE IF to_float(r.fee_usd, 0) # 0 THEN Abs(r.fee_usd.v) * 10000
       ELSE IF fee_bps = 0 THEN 0
       ELSE notional * fee_bps

\* _normalize_trade(raw, source, account_index, market_map): the row, or the
\* exception of parse_timestamp.
normalize_trade(r, source, me) ==
    LET ts == parse_timestamp(TimeOr(r.time, r.timestamp))
        size == to_float(NumOr(NumOr(r.size, r.quantity), r.filled_size), 0)
        price == to_float(r.price, 0)
        given == to_float(NumOr(r.notional, r.quote_qty), 0)
        notional == IF given = 0 /\ size # 0 /\ price # 0 THEN Abs(size * price) ELSE given
        side == resolve_side(r, me)
    IN [raised |-> ts.raised,
        row |-> [timestamp |-> ts.ts, side |-> side, market |-> trade_market(r),
                 price |-> price, size |-> Abs(size), notional_quote |-> Abs(notional),
                 fee_quote |-> trade_fee_quote(r, side, notional),
                 funding_quote |-> to_float(r.funding, 0),
                 realized_pnl |-> to_float(r.realized_pnl, 0),
                 liquidation |-> Contains(Lower(PyOr(r.tx_type, PyStr("")).str), "liq"),
                 tx_hash |-> PyOr(r.hash, r.tx_hash).str, source |-> source]]

\* A pubdata block: absent, or a dict with these keys.
NoBlock == [present |-> FALSE, accepted_amount |-> NaN, amount |-> NaN, asset_index |-> PyNone]

Block(accepted_amount, amount, asset_index) ==
    [present |-> TRUE, accepted_amount |-> accepted_amount, amount |-> amount,
     asset_index |-> asset_index]

\* raw["pubdata"]: its blocks by key; a missing or non-dict pubdata has none.
NoPubdata ==
    [l1_deposit_pubdata_v2 |-> NoBlock, l1_withdraw_pubdata_v2 |-> NoBlock,
     l2_transfer_pubdata_v2 |-> NoBlock]

\* The first non-zero of accepted_amount, amount of a block, else 0.
block_amount(block) ==
    IF ~block.present THEN 0
    ELSE IF to_float(block.accepted_amount, 0) # 0 THEN to_float(block.accepted_amount, 0)
    ELSE to_float(block.amount, 0)

\* _pick_amount(raw)
pick_amount(r) ==
    IF to_float(r.amount, 0) # 0 THEN to_float(r.amount, 0)
    ELSE IF to_float(r.accepted_amount, 0) # 0 THEN to_float(r.accepted_amount, 0)
    ELSE IF to_float(r.usdc_amount, 0) # 0 THEN to_float(r.usdc_amount, 0)
    ELSE IF to_float(r.value, 0) # 0 THEN to_float(r.value, 0)
    ELSE IF block_amount(r.pubdata.l1_deposit_pubdata_v2) # 0
         THEN block_amount(r.pubdata.l1_deposit_pubdata_v2)
    ELSE IF block_amount(r.pubdata.l1_withdraw_pubdata_v2) # 0
         THEN block_amount(r.pubdata.l1_withdraw_pubdata_v2)
    ELSE block_amount(r.pubdata.l2_transfer_pubdata_v2)

\* value is not None and str(value).strip()
AssetGiven(value) == value # PyNone /\ value.str # ""

BlockHasAsset(block) == block.present /\ block.asset_index # PyNone

\* _pick_asset(raw)
pick_asset(r) ==
    IF AssetGiven(r.asset) THEN r.asset.str
    ELSE IF AssetGiven(r.asset_index) THEN r.asset_index.str
    ELSE IF AssetGiven(r.token) THEN r.token.str
    ELSE IF BlockHasAsset(r.pubdata.l1_deposit_pubdata_v2)
         THEN r.pubdata.l1_deposit_pubdata_v2.asset_index.str
    ELSE IF BlockHasAsset(r.pubdata.l1_withdraw_pubdata_v2)
         THEN r.pubdata.l1_withdraw_pubdata_v2.asset_index.str
    ELSE IF BlockHasAsset(r.pubdata.l2_transfer_pubdata_v2)
         THEN r.pubdata.l2_transfer_pubdata_v2.asset_index.str
    ELSE "USDC"

\* _normalize(raw, source, fallback_type): the transfer row, or the exception
\* of parse_timestamp.
normalize_transfer(r, source, fallback_type) ==
    LET tx_type == Lower(PyOr(PyOr(r.tx_type, r.type), PyStr(fallback_type)).str)
        event_type == IF Contains(tx_type, "deposit") THEN "deposit"
                      ELSE IF Contains(tx_type, "withdraw") THEN "withdraw"
                      ELSE IF Contains(tx_type, "transfer") THEN "transfer"
                      ELSE fallback_type
        ts == parse_timestamp(TimeOr(r.time, r.timestamp))
    IN [raised |-> ts.raised,
        row |-> [timestamp |-> ts.ts, event_type |-> event_type, asset |-> pick_asset(r),
                 amount_quote |-> pick_amount(r),
                 fee_quote |-> to_float(NumOr(r.fee, r.usdc_fee), 0),
                 tx_hash |-> PyOr(r.hash, r.tx_hash).str, source |-> source]]

\* str.upper() on the asset names that occur.
Upper(s) == CASE s = "lit" -> "LIT" [] s = "Lighter" -> "LIGHTER" [] OTHER -> s

\* _looks_like_token(asset)
looks_like_token(asset) == Contains(Upper(asset), "LIT") \/ Contains(Upper(asset), "LIGHTER")

\* The airdrop rows taken from the transfer table.
airdrop_rows_from_transfers(table) ==
    LET hits == SelectSeq(table, LAMBDA row : looks_like_token(row.asset))
    IN [i \in 1..Len(hits) |->
          [timestamp |-> hits[i].timestamp, asset |-> hits[i].asset,
           quantity |-> hits[i].amount_quote,
           event_type |-> IF hits[i].event_type = "deposit" THEN "airdrop"
                          ELSE "token_transfer",
           source |-> hits[i].source]]

\* The block an explorer log's asset and quantity are read from.
airdrop_block(log) ==
    IF log.pubdata.l1_deposit_pubdata_v2.present THEN log.pubdata.l1_deposit_pubdata_v2
    ELSE log.pubdata.l2_transfer_pubdata_v2

\* One explorer log in fetch_airdrops_and_token_transfers: whether it is
\* taken, the row it gives, and whether parse_timestamp raised on it.
airdrop_from_log(log, endpoint_name) ==
    LET tx_type == Lower(PyOr(log.tx_type, PyStr("")).str)
        block == airdrop_block(log)
        asset == IF block.present THEN PyOr(block.asset_index, PyStr("")).str ELSE ""
        qty == IF block.present
               THEN to_float(NumOr(block.accepted_amount, block.amount), 0) ELSE 0
        taken == (Contains(tx_type, "airdrop") \/ looks_like_token(asset)) /\ qty # 0
        ts == parse_timestamp(TimeOr(log.time, log.timestamp))
    IN [taken |-> taken, raised |-> taken /\ ts.raised,
        row |-> [timestamp |-> ts.ts, asset |-> IF asset # "" THEN asset ELSE "TOKEN",
                 quantity |-> qty,
                 event_type |-> IF Contains(tx_type, "airdrop") THEN "airdrop"
                                ELSE "token_transfer",
                 source |-> endpoint_name]]

\* The explorer's answer: the request failed, or the logs it returned.
ExplorerFailed == [ok |-> FALSE, logs |-> <<>>]

ExplorerLogs(logs) == [ok |-> TRUE, logs |-> logs]

\* fetch_airdrops_and_token_transfers(client, transfers) with the explorer's
\* answer: the tables it can return and the status it records for the
\* explorer endpoint.
fetch_airdrops_and_token_transfers(table, answer) ==
    LET endpoint_name == "explorer.airdrop[" \o IntStr(account_index) \o "]"
        answered == answer.ok
        logs == answer.logs
        n == Len(logs)
        hit(i) == airdrop_from_log(logs[i], endpoint_name)
        raising == {i \in 1..n : hit(i).raised}
        stop == IF raising = {} THEN n
                ELSE (CHOOSE i \in raising : \A j \in raising : i <= j) - 1
        read == SubSeq(logs, 1, stop)
        taken == SelectSeq(read, LAMBDA log : airdrop_from_log(log, endpoint_name).taken)
        added == [i \in 1..Len(taken) |-> airdrop_from_log(taken[i], endpoint_name).row]
        all_rows == airdrop_rows_from_transfers(table) \o added
        status == [name |-> endpoint_name, success |-> answered /\ raising = {}]
    IN {[rows |-> RowsOf(t), status |-> status] : t \in dedup_and_sort(all_rows, "airdrops")}

\* Raw trade records; the further alternative keys of each `or` chain are
\* absent.
TradeRaws ==
    [time : {TimeValue("int", 1), TimeValue("text", 0)}, timestamp : {TimeNone},
     side : {PyNone, PyStr("Buy")}, direction : {PyNone}, trade_side : {PyNone},
     is_taker_ask : {PyNone, PyBool(TRUE)},
     taker_account_index : {PyNone, PyInt(1)}, maker_account_index : {PyNone, PyInt(1)},
     symbol : {PyNone, PyStr("BTC")},
     market_index : {NaN, Num(0), Num(1), Num(2)}, market_id : {NaN},
     size : {NaN, Num(-1), Num(0), Num(2)}, quantity : {NaN}, filled_size : {NaN},
     price : {NaN, Num(3)},
     notional : {NaN, Num(-5), Num(4)}, quote_qty : {NaN},
     fee : {NaN, Num(1)}, fee_usd : {NaN},
     taker_fee : {NaN, Num(2)}, maker_fee : {NaN, Num(1)},
     funding : {NaN}, realized_pnl : {NaN},
     tx_type : {PyNone, PyStr("Liquidation")},
     hash : {PyStr("h1")}, tx_hash : {PyNone}]

TransferPubdata ==
    {NoPubdata,
     [NoPubdata EXCEPT !.l1_deposit_pubdata_v2 = Block(Num(-2), NaN, PyNone)],
     [NoPubdata EXCEPT !.l2_transfer_pubdata_v2 = Block(NaN, Num(4), PyStr("LIT"))]}

\* Raw transfer records.
TransferRaws ==
    [time : {TimeValue("int", 1), TimeValue("text", 0)}, timestamp : {TimeNone},
     tx_type : {PyNone, PyStr("L1Deposit"), PyStr("Withdraw"), PyStr("Mint")},
     type : {PyNone},
     asset : {PyNone, PyStr("USDC"), PyStr("lit")}, asset_index : {PyNone}, token : {PyNone},
     amount : {NaN, Num(-5), Num(0), Num(5)}, accepted_amount : {NaN, Num(3)},
     usdc_amount : {NaN}, value : {NaN},
     pubdata : TransferPubdata,
     fee : {NaN, Num(1)}, usdc_fee : {NaN},
     hash : {PyStr("h1")}, tx_hash : {PyNone}]

\* Explorer logs read for airdrops.
AirdropLogs ==
    [time : {TimeValue("int", 2), TimeValue("int_out_of_range", 0)}, timestamp : {TimeNone},
     tx_type : {PyStr("Airdrop"), PyStr("L2Transfer")},
     pubdata : {NoPubdata,
                [NoPubdata EXCEPT !.l2_transfer_pubdata_v2 = Block(Num(-3), NaN, PyStr("LIT"))],
                [NoPubdata EXCEPT !.l1_deposit_pubdata_v2 = Block(NaN, Num(2), PyNone)]}]

\* The endpoints of fetch_transfers with the fallback type of each.
TransferSources ==
    {<<"deposit/history", "deposit">>, <<"withdraw/history", "withdraw">>,
     <<"l1Metadata", "transfer">>}

InitNormalize ==
    /\ GuardUnused
    /\ ReportUnused
    /\ MergeUnused
    /\ SecurityUnused
    /\ account_index = 1
    /\ result = None
    /\ tables = None
    /\ timeline = None
    /\ \/ /\ pc = "normalize_trade"
          /\ raw \in [kind : {"trade"}, record : TradeRaws]
       \/ /\ pc = "normalize_transfer"
          /\ raw \in [kind : {"transfer"}, record : TransferRaws, endpoint : TransferSources,
                      answer : {ExplorerFailed, ExplorerLogs(<<>>)}
                               \cup {ExplorerLogs(<<log>>) : log \in AirdropLogs}]

NormalizeTrade ==
    /\ pc = "normalize_trade"
    /\ result' = normalize_trade(raw.record, "trades", account_index)
    /\ pc' = "done"
    /\ UNCHANGED <<raw, account_index, tables, timeline>>
    /\ UNCHANGED guardVars
    /\ UNCHANGED reportVars
    /\ UNCHANGED mergeVars
    /\ UNCHANGED security

NormalizeTransfer ==
    /\ pc = "normalize_transfer"
    /\ result' = normalize_transfer(raw.record, raw.endpoint[1], raw.endpoint[2])
    /\ pc' = "fetch_airdrops"
    /\ UNCHANGED <<raw, account_index, tables, timeline>>
    /\ UNCHANGED guardVars
    /\ UNCHANGED reportVars
    /\ UNCHANGED mergeVars
    /\ UNCHANGED security

\* fetch_airdrops_and_token_transfers on the table of the normalized transfer.
FetchAirdropsAndTokenTransfers ==
    /\ pc = "fetch_airdrops"
    /\ tables' \in fetch_airdrops_and_token_transfers(<<result.row>>, raw.answer)
    /\ pc' = "done"
    /\ UNCHANGED <<raw, account_index, result, timeline>>
    /\ UNCHANGED guardVars
    /\ UNCHANGED reportVars
    /\ UNCHANGED mergeVars
    /\ UNCHANGED security

NextNormalize == NormalizeTrade \/ NormalizeTransfer \/ FetchAirdropsAndTokenTransfers

SpecNormalize == InitNormalize /\ [][NextNormalize]_vars

\* The trade record has an explicit fee (fee or fee_usd).
HasExplicitFee == ~NumOr(raw.record.fee, raw.record.fee_usd).na

\* The fee by the role of the local account: the record's taker fee bps for
\* the taker, its maker fee bps for the maker, on the notional.
FeeByRole ==
    IF raw.record.taker_account_index = PyInt(account_index)
    THEN trade_notional(raw.record) * to_float(raw.record.taker_fee, 0)
    ELSE trade_notional(raw.record) * to_float(raw.record.maker_fee, 0)

\* C22 as stated: the normalized fee is the explicit fee when one is present;
\* otherwise notional * fee_bps / 10000 with the taker fee when the local
\* account is the taker of the trade and the maker fee when it is the maker.
C22_FeeByRole ==
    (/\ pc = "done"
     /\ raw.kind = "trade"
     /\ \/ HasExplicitFee
        \/ raw.record.taker_account_index = PyInt(account_index)
        \/ raw.record.maker_account_index = PyInt(account_index))
        => result.row.fee_quote =
              IF HasExplicitFee
              THEN to_float(NumOr(raw.record.fee, raw.record.fee_usd), 0) * 10000
              ELSE FeeByRole

\* What holds of _normalize_trade: without an explicit fee the bps are the
\* taker fee whenever the side was resolved to buy or sell, whatever the role
\* of the local account, and the maker fee when the side is unknown.
FeeBpsBySideResolved ==
    (pc = "done" /\ raw.kind = "trade" /\ ~HasExplicitFee) =>
        result.row.fee_quote =
            trade_notional(raw.record)
                * (IF result.row.side \in {"buy", "sell"}
                   THEN to_float(raw.record.taker_fee, 0)
                   ELSE to_float(raw.record.maker_fee, 0))

\* _compute_trade_fee_usd of lighter_txlog.py on the same records does select
\* the bps by role (the local account index being non-zero here).
TxlogFeeByRole ==
    (/\ raw.kind = "trade"
     /\ ~NumTruthy(NumOr(raw.record.fee, raw.record.fee_usd))
     /\ ~NumTruthy(raw.record.notional)
     /\ NumTruthy(raw.record.size)
     /\ NumTruthy(raw.record.price)
     /\ \/ raw.record.taker_account_index = PyInt(account_index)
        \/ raw.record.maker_account_index = PyInt(account_index))
        => compute_trade_fee_usd(raw.record, account_index) = FeeByRole

\* The market index _normalize_trade reads: market_index or market_id.
GivenMarketIndex == NumOr(raw.record.market_index, raw.record.market_id)

\* C23 as stated: the normalized market is the explicit symbol when one is
\* present, also when a market index maps to a different symbol; only
\* without an explicit symbol is the index looked up in the market-id map,
\* and only when that lookup fails is the label market_{id} used.
C23_ExplicitSymbolFirst ==
    (pc = "done" /\ raw.kind = "trade") =>
        result.row.market =
            IF raw.record.symbol.truthy THEN raw.record.symbol.str
            ELSE IF raw.record.market_index.na THEN ""
            ELSE IF raw.record.market_index.v \in DOMAIN market_map
                 THEN market_map[raw.record.market_index.v]
            ELSE "market_" \o IntStr(raw.record.market_index.v)

\* What holds of _normalize_trade: a truthy market index found in the map
\* gives the mapped symbol whatever the explicit symbol is; otherwise the
\* explicit symbol; without either, market_{id} for a truthy index, else "".
MappedSymbolFirst ==
    (pc = "done" /\ raw.kind = "trade") =>
        result.row.market =
            IF ~GivenMarketIndex.na /\ GivenMarketIndex.v \in DOMAIN market_map
            THEN market_map[GivenMarketIndex.v]
            ELSE IF raw.record.symbol.truthy THEN raw.record.symbol.str
            ELSE IF ~GivenMarketIndex.na THEN "market_" \o IntStr(GivenMarketIndex.v)
            ELSE ""

\* C9 as stated: every normalized event has a non-negative quantity and a
\* non-negative notional or amount, whatever the sign of the raw fields: trade
\* rows (size, notional_quote), transfer rows (amount_quote) and airdrop rows
\* (quantity).
C9_NonNegativeAmounts ==
    /\ (raw.kind = "trade" /\ pc = "done") =>
          (result.row.size >= 0 /\ result.row.notional_quote >= 0)
    /\ (raw.kind = "transfer" /\ pc \in {"fetch_airdrops", "done"}) =>
          result.row.amount_quote >= 0
    /\ (raw.kind = "transfer" /\ pc = "done") =>
          \A i \in 1..Len(tables.rows) : tables.rows[i].quantity >= 0

\* The trade part of C9: size and notional_quote of a normalized trade are
\* the absolute values of the raw ones.
TradeAmountsNonNegative ==
    (raw.kind = "trade" /\ pc = "done") =>
        (result.row.size >= 0 /\ result.row.notional_quote >= 0)

(***************************************************************************)
(* A batch through one endpoint of fetch_trades and one of                 *)
(* fetch_transfers, then build_reconstructed_schema (transform.py).        *)
(***************************************************************************)

\* Bound of a batch.
MaxBatch == 2

\* main.py calls build_reconstructed_schema with fx_rate=1.0.
fx_rate == 1

\* The index of the first record of outs whose normalization raised, less
\* one: the number of rows the generator gave to rows.extend.
rows_before_raise(outs) ==
    LET raising == {i \in 1..Len(outs) : outs[i].raised}
    IN IF raising = {} THEN Len(outs)
       ELSE (CHOOSE i \in raising : \A j \in raising : i <= j) - 1

\* The accountTrades block of fetch_trades on a batch: the rows appended up
\* to the first exception, and the status recorded.
trade_endpoint(batch) ==
    LET outs == [i \in 1..Len(batch) |->
                    normalize_trade(batch[i], "accountTrades", account_index)]
        stop == rows_before_raise(outs)
        raised == stop < Len(batch)
    IN [rows |-> [i \in 1..stop |-> outs[i].row], raised |-> raised,
        status |-> [name |-> "accountTrades", success |-> ~raised,
                    records |-> IF raised THEN 0 ELSE Len(batch)]]

\* The deposit/history block of fetch_transfers on a batch.
transfer_endpoint(batch) ==
    LET outs == [i \in 1..Len(batch) |->
                    normalize_transfer(batch[i], "deposit/history", "deposit")]
        stop == rows_before_raise(outs)
        raised == stop < Len(batch)
    IN [rows |-> [i \in 1..stop |-> outs[i].row], raised |-> raised,
        status |-> [name |-> "deposit/history", success |-> ~raised,
                    records |-> IF raised THEN 0 ELSE Len(batch)]]

\* _event_type_from_trade(side, liquidation), the labels in English.
event_type_from_trade(side, liquidation) ==
    IF liquidation THEN "liquidation"
    ELSE IF side = "buy" THEN "buy"
    ELSE IF side = "sell" THEN "sell"
    ELSE "trade"

\* _build_trade_rows: a trade without a timestamp is skipped.
build_trade_rows(trades_table) ==
    LET dated == SelectSeq(trades_table, LAMBDA t : ~t.timestamp.na)
    IN [i \in 1..Len(dated) |->
          [timestamp |-> dated[i].timestamp,
           type |-> event_type_from_trade(dated[i].side, dated[i].liquidation),
           pair |-> dated[i].market, price |-> Num(dated[i].price),
           value |-> dated[i].notional_quote * fx_rate, fx |-> fx_rate]]

\* _build_transfer_rows: a transfer without a timestamp is skipped.
build_transfer_rows(transfers_table) ==
    LET dated == SelectSeq(transfers_table, LAMBDA x : ~x.timestamp.na)
        type_of(e) == CASE e = "deposit" -> "deposit" [] e = "withdraw" -> "withdraw"
                        [] OTHER -> "transfer"
    IN [i \in 1..Len(dated) |->
          [timestamp |-> dated[i].timestamp, type |-> type_of(dated[i].event_type),
           pair |-> "", price |-> NaN,
           value |-> dated[i].amount_quote * fx_rate, fx |-> fx_rate]]

\* build_reconstructed_schema(trades, transfers): the timelines it can return,
\* each entry numbered by its place ("Unnamed: 0").
build_reconstructed_schema(trades_table, transfers_table) ==
    LET all_rows == build_trade_rows(trades_table) \o build_transfer_rows(transfers_table)
    IN {reset_index(t) : t \in sort_values(DataFrame(all_rows))}

\* The raw timestamps drawn for a batch.
BatchTimes ==
    {TimeValue("int", 1), TimeValue("int_ms", 2), TimeValue("digits13", 1),
     TimeValue("iso", 2), TimeValue("text", 0), TimeValue("int_out_of_range", 0),
     TimeValue("none", 0)}

\* A raw timestamp that is given and denotes no time the program can hold.
Unparseable(value) == value.form \in {"text", "int_out_of_range"}

BaseTrade ==
    [time |-> TimeNone, timestamp |-> TimeNone,
     side |-> PyStr("Buy"), direction |-> PyNone, trade_side |-> PyNone,
     is_taker_ask |-> PyNone, taker_account_index |-> PyNone,
     maker_account_index |-> PyNone, symbol |-> PyStr("BTC"),
     market_index |-> NaN, market_id |-> NaN,
     size |-> Num(2), quantity |-> NaN, filled_size |-> NaN, price |-> Num(3),
     notional |-> NaN, quote_qty |-> NaN, fee |-> NaN, fee_usd |-> NaN,
     taker_fee |-> NaN, maker_fee |-> NaN, funding |-> NaN, realized_pnl |-> NaN,
     tx_type |-> PyNone, hash |-> PyStr("h1"), tx_hash |-> PyNone]

BaseTransfer ==
    [time |-> TimeNone, timestamp |-> TimeNone, tx_type |-> PyNone, type |-> PyNone,
     asset |-> PyStr("USDC"), asset_index |-> PyNone, token |-> PyNone,
     amount |-> Num(5), accepted_amount |-> NaN, usdc_amount |-> NaN, value |-> NaN,
     pubdata |-> NoPubdata, fee |-> NaN, usdc_fee |-> NaN,
     hash |-> PyStr("h2"), tx_hash |-> PyNone]

BatchTrades == {[BaseTrade EXCEPT !.time = tv] : tv \in BatchTimes}

BatchTransfers ==
    {[BaseTransfer EXCEPT !.time = tv] :
        tv \in {TimeValue("int", 1), TimeValue("text", 0), TimeValue("int_out_of_range", 0)}}

InitBatch ==
    /\ pc = "trades_batch"
    /\ GuardUnused
    /\ ReportUnused
    /\ MergeUnused
    /\ SecurityUnused
    /\ account_index = 1
    /\ raw \in [trades : SeqUpTo(BatchTrades, MaxBatch),
                transfers : SeqUpTo(BatchTransfers, MaxBatch)]
    /\ result = [trades |-> None, transfers |-> None]
    /\ tables = [trades |-> <<>>, transfers |-> <<>>]
    /\ timeline = <<>>

\* The batch of trades through its endpoint, then the fetcher's dedup and sort.
NormalizeTradeBatch ==
    /\ pc = "trades_batch"
    /\ result' = [result EXCEPT !.trades = trade_endpoint(raw.trades)]
    /\ \E t \in dedup_and_sort(trade_endpoint(raw.trades).rows, "trades") :
          tables' = [tables EXCEPT !.trades = RowsOf(t)]
    /\ pc' = "transfers_batch"
    /\ UNCHANGED <<raw, account_index, timeline>>
    /\ UNCHANGED guardVars
    /\ UNCHANGED reportVars
    /\ UNCHANGED mergeVars
    /\ UNCHANGED security

\* The batch of transfers through its endpoint, then the fetcher's dedup and
\* sort.
NormalizeTransferBatch ==
    /\ pc = "transfers_batch"
    /\ result' = [result EXCEPT !.transfers = transfer_endpoint(raw.transfers)]
    /\ \E t \in dedup_and_sort(transfer_endpoint(raw.transfers).rows, "transfers") :
          tables' = [tables EXCEPT !.transfers = RowsOf(t)]
    /\ pc' = "timeline"
    /\ UNCHANGED <<raw, account_index, timeline>>
    /\ UNCHANGED guardVars
    /\ UNCHANGED reportVars
    /\ UNCHANGED mergeVars
    /\ UNCHANGED security

BuildReconstructedSchema ==
    /\ pc = "timeline"
    /\ timeline' \in build_reconstructed_schema(tables.trades, tables.transfers)
    /\ pc' = "done"
    /\ UNCHANGED <<raw, account_index, result, tables>>
    /\ UNCHANGED guardVars
    /\ UNCHANGED reportVars
    /\ UNCHANGED mergeVars
    /\ UNCHANGED security

NextBatch == NormalizeTradeBatch \/ NormalizeTransferBatch \/ BuildReconstructedSchema

SpecBatch == InitBatch /\ [][NextBatch]_vars

\* What C10 says of one endpoint: normalization raised nothing, every record
\* of the batch gave a row, and the row of a record with an unparseable
\* timestamp has none.
BatchFullyNormalized(batch, out) ==
    /\ ~out.raised
    /\ Len(out.rows) = Len(batch)
    /\ \A i \in 1..Len(batch) :
          Unparseable(TimeOr(batch[i].time, batch[i].timestamp)) => out.rows[i].timestamp.na

\* Every row of the timeline has a timestamp.
TimelineDated == \A i \in 1..Len(timeline) : ~timeline[i].row.timestamp.na

\* C10 as stated: for every raw record whose timestamp cannot be parsed,
\* normalization raises no exception and yields a row with a missing
\* timestamp, the remaining records of the batch are still processed, and
\* every row of the timeline has a valid timestamp.
C10_UnparseableDroppedNotAborted ==
    pc = "done" =>
        /\ BatchFullyNormalized(raw.trades, result.trades)
        /\ BatchFullyNormalized(raw.transfers, result.transfers)
        /\ TimelineDated

\* The timeline part of C10, which holds: no row without a timestamp reaches
\* the timeline.
TimelineRowsDated == pc = "done" => TimelineDated

(***************************************************************************)
(* Initial-deposit inference: transform.py,                                *)
(* infer_initial_deposit_if_missing, followed by the timeline of main.     *)
(* Tables are sequences of normalized rows as the fetchers return them:    *)
(* ascending by timestamp, the rows without a timestamp last.              *)
(***************************************************************************)

\* The sum of amount_quote over the rows of one event_type.
sum_amount(table, event_type) ==
    SumSeq([i \in 1..Len(table) |->
               IF table[i].event_type = event_type THEN table[i].amount_quote ELSE 0])

\* The valid timestamps of a table (to_datetime(errors="coerce").dropna()).
valid_timestamps(table) ==
    {table[i].timestamp.v : i \in {j \in 1..Len(table) : ~table[j].timestamp.na}}

\* earliest_ts: the minimum of the valid timestamps of the three tables, NaN
\* (None) when there is none.
earliest_timestamp(transfers_table, trades_table, balances_table) ==
    LET all == valid_timestamps(transfers_table) \cup valid_timestamps(trades_table)
                  \cup valid_timestamps(balances_table)
    IN IF all = {} THEN NaN ELSE Num(CHOOSE t \in all : \A u \in all : t <= u)

\* sign * notional_quote - fee_quote + funding_quote of a trade row.
signed_cashflow(t) ==
    (CASE t.side = "buy" -> -1 [] t.side = "sell" -> 1 [] OTHER -> 0) * t.notional_quote
        - t.fee_quote + t.funding_quote

\* exposure_proxy = max(0.0, -running.min()) over the trades in the order
\* sort_values gave them.
exposure_proxy(sorted_trades) ==
    IF Len(sorted_trades) = 0 THEN 0
    ELSE Max(0, -MinSeq(cumsum([i \in 1..Len(sorted_trades) |->
                                   signed_cashflow(sorted_trades[i])])))

\* The greatest of the positive candidates, 0.0 when none is positive.
inferred_initial_of(earliest_equity, recon_estimate, proxy) ==
    LET candidates == {x \in {earliest_equity, recon_estimate, proxy} : x > 0}
    IN IF candidates = {} THEN 0
       ELSE CHOOSE x \in candidates : \A y \in candidates : x >= y

\* The synthetic deposit row.
inferred_row(inferred_time, inferred_initial) ==
    [timestamp |-> Num(inferred_time), event_type |-> "deposit", asset |-> "USDC",
     amount_quote |-> inferred_initial, fee_quote |-> 0,
     tx_hash |-> "inferred_initial_deposit", source |-> "inference"]

timestamp_before_mutant(earliest_ts) == earliest_ts

\* inferred_time = earliest_ts - timedelta(seconds=1)
timestamp_before(earliest_ts) == earliest_ts - 1

\* infer_initial_deposit_if_missing with the balances and the trades in one
\* of the orders their sort_values can give: the transfers tables it can
\* return, with the info of each.
infer_with_sorted(transfers_table, trades_table, balances_table, b, t) ==
    LET deposits == sum_amount(transfers_table, "deposit")
        withdrawals == sum_amount(transfers_table, "withdraw")
        earliest_ts == earliest_timestamp(transfers_table, trades_table, balances_table)
        has_balance == Len(b) > 0
        ending_equity == IF has_balance THEN b[Len(b)].total_asset_value_quote ELSE 0
        earliest_equity == IF has_balance THEN b[1].total_asset_value_quote ELSE 0
        realized == IF has_balance THEN b[Len(b)].realized_pnl_quote ELSE 0
        unrealized == IF has_balance THEN b[Len(b)].unrealized_pnl_quote ELSE 0
        fee_total == SumSeq([i \in 1..Len(trades_table) |-> trades_table[i].fee_quote])
        funding_total ==
            SumSeq([i \in 1..Len(trades_table) |-> trades_table[i].funding_quote])
        proxy == exposure_proxy(t)
        net_pnl_components == realized + unrealized + funding_total - fee_total
        recon_estimate == ending_equity - (deposits - withdrawals) - net_pnl_components
        inferred_initial == inferred_initial_of(earliest_equity, recon_estimate, proxy)
        injected == deposits <= 0 /\ inferred_initial > 0 /\ ~earliest_ts.na
        row == inferred_row(timestamp_before(earliest_ts.v), inferred_initial)
        info(table) ==
            [inferred_initial_deposit |-> inferred_initial,
             injected_inferred_deposit |-> injected,
             earliest_equity |-> earliest_equity,
             reconciliation_estimate |-> recon_estimate,
             exposure_proxy |-> proxy, ending_equity |-> ending_equity,
             realized_pnl |-> realized, unrealized_pnl |-> unrealized,
             fees_total |-> fee_total, funding_total |-> funding_total,
             total_deposits |-> sum_amount(table, "deposit"),
             total_withdrawals |-> sum_amount(table, "withdraw"),
             net_deposits |-> sum_amount(table, "deposit") - sum_amount(table, "withdraw"),
             earliest_timestamp |-> earliest_ts]
    IN IF injected
       THEN {[transfers |-> RowsOf(s), info |-> info(RowsOf(s))] :
                s \in sort_values(DataFrame(<<row>> \o transfers_table))}
       ELSE {[transfers |-> transfers_table, info |-> info(transfers_table)]}

\* infer_initial_deposit_if_missing(transfers, trades, balances)
infer_initial_deposit_if_missing(transfers_table, trades_table, balances_table) ==
    UNION {infer_with_sorted(transfers_table, trades_table, balances_table,
                             RowsOf(b), RowsOf(t)) :
              b \in sort_values(DataFrame(balances_table)),
              t \in sort_values(DataFrame(trades_table))}

\* A table as a fetcher returns it: ascending, rows without timestamp last.
IsSorted(table) ==
    \A i \in 1..Len(table) : \A j \in (i+1)..Len(table) :
        /\ table[i].timestamp.na => table[j].timestamp.na
        /\ (~table[i].timestamp.na /\ ~table[j].timestamp.na) =>
              table[i].timestamp.v <= table[j].timestamp.v

DepositTransferRows ==
    {[timestamp |-> ts, event_type |-> e[1], asset |-> "USDC", amount_quote |-> e[2],
      fee_quote |-> 0, tx_hash |-> "h1", source |-> "deposit/history"] :
        ts \in {Num(1), Num(2), NaN},
        e \in {<<"deposit", 1>>, <<"deposit", -1>>, <<"withdraw", 1>>}}

DepositTradeRows ==
    {[timestamp |-> ts, side |-> e[1], market |-> "ETH", price |-> 1, size |-> 2,
      notional_quote |-> 2, fee_quote |-> e[2], funding_quote |-> 0, realized_pnl |-> 0,
      liquidation |-> FALSE, tx_hash |-> "h2", source |-> "trades"] :
        ts \in {Num(1), Num(3), NaN}, e \in {<<"buy", 0>>, <<"sell", 1>>}}

DepositTradeTables ==
    {t \in {<<>>} \cup {<<r>> : r \in DepositTradeRows}
              \cup {<<r, q>> : r \in DepositTradeRows, q \in DepositTradeRows} : IsSorted(t)}

DepositBalanceRows ==
    [timestamp : {Num(2), Num(4)}, total_asset_value_quote : {0, 3},
     collateral_quote : {0}, available_balance_quote : {0},
     realized_pnl_quote : {0}, unrealized_pnl_quote : {0}, source : {"account"}]

DepositBalanceTables == {<<>>} \cup {<<r>> : r \in DepositBalanceRows}

DepositTransferTables ==
    {t \in {<<>>} \cup {<<r>> : r \in DepositTransferRows}
              \cup {<<r, q>> : r \in DepositTransferRows, q \in DepositTransferRows} :
        IsSorted(t)}

InitDeposit ==
    /\ pc = "infer_deposit"
    /\ GuardUnused
    /\ ReportUnused
    /\ MergeUnused
    /\ SecurityUnused
    /\ raw = None
    /\ account_index = 0
    /\ tables \in [transfers : DepositTransferTables,
                   trades : DepositTradeTables, balances : DepositBalanceTables]
    /\ result = None
    /\ timeline = <<>>

\* transfers, inference_info = infer_initial_deposit_if_missing(...)
CallInferInitialDepositIfMissing ==
    /\ pc = "infer_deposit"
    /\ result' \in infer_initial_deposit_if_missing(tables.transfers, tables.trades,
                                                    tables.balances)
    /\ pc' = "reconstruct"
    /\ UNCHANGED <<raw, account_index, tables, timeline>>
    /\ UNCHANGED guardVars
    /\ UNCHANGED reportVars
    /\ UNCHANGED mergeVars
    /\ UNCHANGED security

\* The timelines main can write: build_reconstructed_schema, then main's own
\* sort_values and renumbering.
reconstructed_timelines(trades_table, transfers_table) ==
    UNION {{reset_index(u) : u \in sort_values(t)} :
              t \in build_reconstructed_schema(trades_table, transfers_table)}

\* reconstructed = build_reconstructed_schema(trades, transfers, ...), sorted.
ReconstructTimeline ==
    /\ pc = "reconstruct"
    /\ timeline' \in reconstructed_timelines(tables.trades, result.transfers)
    /\ pc' = "done"
    /\ UNCHANGED <<raw, account_index, tables, result>>
    /\ UNCHANGED guardVars
    /\ UNCHANGED reportVars
    /\ UNCHANGED mergeVars
    /\ UNCHANGED security

NextDeposit == CallInferInitialDepositIfMissing \/ ReconstructTimeline

SpecDeposit == InitDeposit /\ [][NextDeposit]_vars

\* The earliest valid timestamp of the three tables given to the inference.
InputEarliest == earliest_timestamp(tables.transfers, tables.trades, tables.balances)

\* C12: an injected synthetic deposit is timestamped one second before the
\* earliest valid timestamp of the transfers, trades and balances tables, is
\* the first row of the returned transfers table, and precedes every other
\* row of the reconstructed timeline.
C12_SyntheticDepositFirst ==
    (pc \in {"reconstruct", "done"} /\ result.info.injected_inferred_deposit) =>
        /\ ~InputEarliest.na
        /\ result.transfers[1].source = "inference"
        /\ result.transfers[1].timestamp = Num(InputEarliest.v - 1)
        /\ \A i \in 2..Len(result.transfers) :
              /\ result.transfers[i].source # "inference"
              /\ result.transfers[i].timestamp.na
                    \/ result.transfers[i].timestamp.v > InputEarliest.v - 1
        /\ pc = "done" =>
              /\ timeline[1].row.timestamp = Num(InputEarliest.v - 1)
              /\ timeline[1].row.type = "deposit"
              /\ \A i \in 2..Len(timeline) :
                    timeline[i].row.timestamp.v > InputEarliest.v - 1

\* C12 witness: a deposit injected before a trade that is the earliest event,
\* in front of a transfer without deposits, and first in the timeline.
C12_Witness ==
    /\ pc = "done"
    /\ result.info.injected_inferred_deposit
    /\ Len(tables.transfers) > 0
    /\ ~tables.transfers[1].timestamp.na
    /\ Len(tables.trades) > 0
    /\ tables.trades[1].timestamp = Num(1)
    /\ tables.transfers[1].timestamp = Num(2)
    /\ result.transfers[1].timestamp = Num(0)
    /\ Len(timeline) >= 3

\* The exposure proxy of infer_initial_deposit_if_missing is max(0, -m), m the
\* minimum of the running sums of the signed cashflows of the trades in
\* ascending timestamp order, whatever order the rows at one timestamp take.
DepositProxyIsMaxZeroNegMin ==
    pc \in {"reconstruct", "done"} =>
        \E t \in sort_values(DataFrame(tables.trades)) :
            LET flows == [i \in 1..Len(t) |-> signed_cashflow(t[i].row)]
            IN result.info.exposure_proxy =
                  (IF Len(flows) = 0 THEN 0 ELSE Max(0, -MinSeq(cumsum(flows))))

(***************************************************************************)
(* API key permission check: security_guard.py, SecurityGuard.             *)
(* A probe answer is what client.post gave: it raised, it returned a       *)
(* value that is not a dict (the JSON list or the text of a 2xx answer),   *)
(* or it returned a dict with status_code (0 when absent) and error_name.  *)
(***************************************************************************)

\* _AUTH_DENIED_ERRORS
AUTH_DENIED_ERRORS ==
    {"no_authorization", "unauthorized", "out_of_scope", "jwt_verification",
     "invalid_access_key", "expired_access_key"}

ProbeRaised == [kind |-> "raise", status_code |-> 0, error_name |-> PyStr("")]

ProbeNotDict == [kind |-> "other", status_code |-> 0, error_name |-> PyStr("")]

ProbeDict(status_code, error_name) ==
    [kind |-> "dict", status_code |-> status_code, error_name |-> error_name]

\* status in (401, 403) or error_name in _AUTH_DENIED_ERRORS
auth_denied(answer) ==
    answer.status_code \in {401, 403}
        \/ Lower(answer.error_name.str) \in AUTH_DENIED_ERRORS

\* _probe_cex(client, exchange_name, probes), answers[k] being what
\* client.post gives for the k-th probe if it is sent.
RECURSIVE probe_cex(_)
probe_cex(answers) ==
    IF answers = <<>> THEN TRUE
    ELSE IF answers[1].kind = "raise" THEN FALSE
    ELSE IF answers[1].kind = "other" THEN probe_cex(Tail(answers))
    ELSE IF auth_denied(answers[1]) THEN probe_cex(Tail(answers))
    ELSE FALSE

\* The probes of check_upbit and check_bithumb: order, then withdrawal.
cex_probes == <<"/v1/orders", "/v1/withdraws/coin">>

\* The answers drawn for one probe.
ProbeAnswers ==
    {ProbeRaised, ProbeNotDict}
        \cup {ProbeDict(st, en) : st \in {0, 400, 401, 403},
                                  en \in {PyStr(""), PyNone, PyStr("no_authorization"),
                                          PyStr("Out_Of_Scope"), PyStr("validation_error")}}

InitProbe ==
    /\ pc = "check_cex"
    /\ GuardUnused
    /\ ReportUnused
    /\ MergeUnused
    /\ NormUnused
    /\ security \in [exchange : {"upbit", "bithumb"},
                     answers : [1..Len(cex_probes) -> ProbeAnswers],
                     ok : {FALSE}]

\* check_upbit(client): self._probe_cex(client, "Upbit", probes)
CheckUpbit ==
    /\ pc = "check_cex"
    /\ security.exchange = "upbit"
    /\ security' = [security EXCEPT !.ok = probe_cex(security.answers)]
    /\ pc' = "done"
    /\ UNCHANGED guardVars
    /\ UNCHANGED reportVars
    /\ UNCHANGED mergeVars
    /\ UNCHANGED normVars

\* check_bithumb(client): self._probe_cex(client, "Bithumb", probes)
CheckBithumb ==
    /\ pc = "check_cex"
    /\ security.exchange = "bithumb"
    /\ security' = [security EXCEPT !.ok = probe_cex(security.answers)]
    /\ pc' = "done"
    /\ UNCHANGED guardVars
    /\ UNCHANGED reportVars
    /\ UNCHANGED mergeVars
    /\ UNCHANGED normVars

NextProbe == CheckUpbit \/ CheckBithumb

SpecProbe == InitProbe /\ [][NextProbe]_vars

\* An answer that is an authorization denial: a dict with HTTP 401/403 or an
\* error name of the auth-denied set.
IsAuthDenial(answer) ==
    /\ answer.kind = "dict"
    /\ \/ answer.status_code \in {401, 403}
       \/ Lower(answer.error_name.str) \in AUTH_DENIED_ERRORS

\* C17 as stated: _probe_cex returns True only if every probe was answered
\* with an authorization denial; if a probe raises or is answered with
\* anything else, the result is False.
C17_SafeOnlyIfAllDenied ==
    (pc = "done" /\ security.ok) =>
        \A k \in 1..Len(security.answers) : IsAuthDenial(security.answers[k])

\* What holds of _probe_cex: True only if no probe raised and every answer
\* that is a dict is an authorization denial.
SafeOnlyIfDictsDenied ==
    (pc = "done" /\ security.ok) =>
        \A k \in 1..Len(security.answers) :
            /\ security.answers[k].kind # "raise"
            /\ security.answers[k].kind = "dict" => IsAuthDenial(security.answers[k])

(***************************************************************************)
(* SecurityGuard.check_all: the batch check over a list of exchange names. *)
(***************************************************************************)

MaxExchanges == 2

\* ex.lower().strip() on the names drawn.
lower_strip(ex) ==
    CASE ex = " Upbit " -> "upbit"
      [] ex = "LIGHTER" -> "lighter"
      [] OTHER -> ex

ExchangeNames == {"upbit", " Upbit ", "bithumb", "LIGHTER", "binance"}

RecognizedExchanges == {"upbit", "bithumb", "lighter"}

\* The environment of one check_lighter() call: LIGHTER_RO_TOKEN,
\* LIGHTER_ACCOUNT_INDEX and what requests.get gives (0: it raised).
LighterEnvs ==
    {[token |-> "", account_index |-> "7", status_code |-> 200],
     [token |-> "rw:abc", account_index |-> "7", status_code |-> 200],
     [token |-> "ro:abc", account_index |-> "", status_code |-> 200],
     [token |-> "ro:abc", account_index |-> "7", status_code |-> 0],
     [token |-> "ro:abc", account_index |-> "7", status_code |-> 401],
     [token |-> "ro:abc", account_index |-> "7", status_code |-> 200]}

\* check_lighter(): the token is set and starts with "ro:", the account
\* index is set, and the account query answers HTTP 200.
check_lighter(env) ==
    IF env.token = "" THEN FALSE
    ELSE IF env.token \notin {"ro:abc"} THEN FALSE
    ELSE IF env.account_index = "" THEN FALSE
    ELSE env.status_code = 200

\* The answers drawn for one probe inside check_all.
BatchProbeAnswers ==
    {ProbeRaised, ProbeNotDict, ProbeDict(401, PyStr("")),
     ProbeDict(400, PyStr("validation_error"))}

\* results[ex] = ok
set_result(results, ex, ok) ==
    {p \in results : p.exchange # ex} \cup {[exchange |-> ex, ok |-> ok]}

InitCheckAll ==
    /\ pc = "check_all"
    /\ GuardUnused
    /\ ReportUnused
    /\ MergeUnused
    /\ NormUnused
    /\ \E exchanges \in SeqUpTo(ExchangeNames, MaxExchanges) :
          security = [exchanges |-> exchanges, i |-> 1, results |-> {},
                      checks |-> <<>>, returned |-> None]

\* One iteration of `for ex in exchanges` with a recognized CEX name:
\* check_upbit / check_bithumb.
CheckAllCex ==
    /\ pc = "check_all"
    /\ security.i <= Len(security.exchanges)
    /\ lower_strip(security.exchanges[security.i]) \in {"upbit", "bithumb"}
    /\ \E answers \in [1..Len(cex_probes) -> BatchProbeAnswers] :
          LET ex == lower_strip(security.exchanges[security.i])
              ok == probe_cex(answers)
          IN security' = [security EXCEPT
                 !.i = @ + 1,
                 !.results = set_result(@, ex, ok),
                 !.checks = Append(@, [exchange |-> ex, ok |-> ok])]
    /\ UNCHANGED pc
    /\ UNCHANGED guardVars
    /\ UNCHANGED reportVars
    /\ UNCHANGED mergeVars
    /\ UNCHANGED normVars

\* One iteration with the name lighter: check_lighter().
CheckAllLighter ==
    /\ pc = "check_all"
    /\ security.i <= Len(security.exchanges)
    /\ lower_strip(security.exchanges[security.i]) = "lighter"
    /\ \E env \in LighterEnvs :
          LET ok == check_lighter(env)
          IN security' = [security EXCEPT
                 !.i = @ + 1,
                 !.results = set_result(@, "lighter", ok),
                 !.checks = Append(@, [exchange |-> "lighter", ok |-> ok])]
    /\ UNCHANGED pc
    /\ UNCHANGED guardVars
    /\ UNCHANGED reportVars
    /\ UNCHANGED mergeVars
    /\ UNCHANGED normVars

\* One iteration with any other name: a warning, then continue.
CheckAllSkip ==
    /\ pc = "check_all"
    /\ security.i <= Len(security.exchanges)
    /\ lower_strip(security.exchanges[security.i]) \notin RecognizedExchanges
    /\ security' = [security EXCEPT !.i = @ + 1]
    /\ UNCHANGED pc
    /\ UNCHANGED guardVars
    /\ UNCHANGED reportVars
    /\ UNCHANGED mergeVars
    /\ UNCHANGED normVars

\* all_ok: no entry of results is False.
all_ok(results) == \A p \in results : p.ok

\* After the loop: print the results and return all_ok.
CheckAllReturn ==
    /\ pc = "check_all"
    /\ security.i > Len(security.exchanges)
    /\ security' = [security EXCEPT !.returned = all_ok(security.results)]
    /\ pc' = "done"
    /\ UNCHANGED guardVars
    /\ UNCHANGED reportVars
    /\ UNCHANGED mergeVars
    /\ UNCHANGED normVars

NextCheckAll == CheckAllCex \/ CheckAllLighter \/ CheckAllSkip \/ CheckAllReturn

SpecCheckAll == InitCheckAll /\ [][NextCheckAll]_vars

\* The positions of the argument list that name a recognized exchange.
RecognizedPositions ==
    {k \in 1..Len(security.exchanges) :
        lower_strip(security.exchanges[k]) \in RecognizedExchanges}

\* C18 as stated: check_all returns True only if every exchange named in
\* the argument list was checked and found safe; a single failed check
\* makes the result False; every recognized exchange of the list is checked
\* even after an earlier one failed.
C18_TrueOnlyIfAllCheckedSafe ==
    pc = "done" =>
        /\ security.returned = TRUE =>
              /\ Len(security.checks) = Len(security.exchanges)
              /\ \A k \in 1..Len(security.checks) : security.checks[k].ok
        /\ (\E k \in 1..Len(security.checks) : ~security.checks[k].ok)
              => security.returned = FALSE
        /\ Len(security.checks) = Cardinality(RecognizedPositions)

\* What holds of check_all: every recognized name of the list is checked,
\* in order, whatever the earlier checks gave, and True is returned only if
\* the last check of every recognized name passed.
LastCheckOfEachNamePassed ==
    pc = "done" =>
        /\ Len(security.checks) = Cardinality(RecognizedPositions)
        /\ security.returned = TRUE =>
              \A k \in 1..Len(security.checks) :
                  \/ security.checks[k].ok
                  \/ \E j \in (k + 1)..Len(security.checks) :
                        security.checks[j].exchange = security.checks[k].exchange

\* A name that is not recognized is never checked and the result is True.
UnrecognizedOnlyReturnsTrue ==
    (pc = "done" /\ RecognizedPositions = {}) => security.returned = TRUE

(***************************************************************************)
(* Two runs over one snapshot of raw input: the balance extractor's        *)
(* _snapshot_row, infer_initial_deposit_if_missing and main's profit       *)
(* snapshot.  The only thing that differs between the runs is the value    *)
(* datetime.now() returns.                                                 *)
(***************************************************************************)

\* The values datetime.now(timezone.utc) can return, in seconds.
RunClocks == {7, 8, 9}

\* _snapshot_row(raw, source) at wall-clock time now.  The rows drawn have
\* no positions: realized and unrealized stay 0.0.
snapshot_row(raw_account, source, now) ==
    LET given == IF raw_account.updated_at.form # "none"
                 THEN raw_account.updated_at ELSE raw_account.timestamp
        ts == parse_timestamp(given).ts
    IN [timestamp |-> IF ts.na THEN Num(now) ELSE ts,
        total_asset_value_quote |-> to_float(raw_account.total_asset_value, 0),
        collateral_quote |-> 0, available_balance_quote |-> 0,
        realized_pnl_quote |-> 0, unrealized_pnl_quote |-> 0, source |-> source]

\* _build_profit_snapshot(trades, balances, transfers, airdrops): the terms
\* taken from the three tables.
build_profit_snapshot(trades_table, balances_table, transfers_table) ==
    [deposits_quote |-> sum_amount(transfers_table, "deposit"),
     withdrawals_quote |-> sum_amount(transfers_table, "withdraw"),
     net_deposits_quote |-> sum_amount(transfers_table, "deposit")
                               - sum_amount(transfers_table, "withdraw"),
     realized_pnl_quote |->
        SumSeq([i \in 1..Len(trades_table) |-> trades_table[i].realized_pnl]),
     unrealized_pnl_quote |->
        IF balances_table = <<>> THEN 0
        ELSE balances_table[Len(balances_table)].unrealized_pnl_quote,
     fees_quote |-> SumSeq([i \in 1..Len(trades_table) |-> trades_table[i].fee_quote]),
     funding_quote |->
        SumSeq([i \in 1..Len(trades_table) |-> trades_table[i].funding_quote]),
     ending_equity_quote |->
        IF balances_table = <<>> THEN 0
        ELSE balances_table[Len(balances_table)].total_asset_value_quote]

\* What one run computes from the raw input at wall-clock time now: the
\* balance table (the current snapshot; one row, which dedup and sort leave
\* as it is), the inference, the profit snapshot.
run_outputs(raw_input, now) ==
    LET balances_table == <<snapshot_row(raw_input.account, "account", now)>>
    IN {[clock |-> now, balances |-> balances_table, transfers |-> r.transfers,
         info |-> r.info,
         profit |-> build_profit_snapshot(raw_input.trades, balances_table, r.transfers)] :
           r \in infer_initial_deposit_if_missing(raw_input.transfers, raw_input.trades,
                                                  balances_table)}

RawAccounts ==
    [updated_at : {TimeValue("none", 0), TimeValue("int", 2)},
     timestamp : {TimeValue("none", 0), TimeValue("int", 4)},
     total_asset_value : {Num(0), Num(3)}]

RunTransferTables == {<<>>} \cup {<<r>> : r \in DepositTransferRows}

RunTradeTables == {<<>>} \cup {<<r>> : r \in DepositTradeRows}

InitRuns ==
    /\ pc = "run"
    /\ GuardUnused
    /\ ReportUnused
    /\ MergeUnused
    /\ SecurityUnused
    /\ raw \in [account : RawAccounts, transfers : RunTransferTables,
                trades : RunTradeTables]
    /\ account_index = 0
    /\ tables = <<>>
    /\ result = None
    /\ timeline = <<>>

\* The first run of the pipeline over the raw input.
FirstRun ==
    /\ pc = "run"
    /\ tables = <<>>
    /\ \E now \in RunClocks : \E out \in run_outputs(raw, now) : tables' = <<out>>
    /\ UNCHANGED <<pc, raw, account_index, result, timeline>>
    /\ UNCHANGED guardVars
    /\ UNCHANGED reportVars
    /\ UNCHANGED mergeVars
    /\ UNCHANGED security

\* A second run over the same raw input, at a later time.
SecondRun ==
    /\ pc = "run"
    /\ Len(tables) = 1
    /\ \E now \in RunClocks :
          /\ now > tables[1].clock
          /\ \E out \in run_outputs(raw, now) : tables' = Append(tables, out)
    /\ pc' = "done"
    /\ UNCHANGED <<raw, account_index, result, timeline>>
    /\ UNCHANGED guardVars
    /\ UNCHANGED reportVars
    /\ UNCHANGED mergeVars
    /\ UNCHANGED security

NextRuns == FirstRun \/ SecondRun

SpecRuns == InitRuns /\ [][NextRuns]_vars

\* The outputs of the two runs, without the clock.
RunsAgree ==
    /\ tables[1].balances = tables[2].balances
    /\ tables[1].transfers = tables[2].transfers
    /\ tables[1].info = tables[2].info
    /\ tables[1].profit = tables[2].profit

\* C16 as stated: two runs over the same raw records give identical tables,
\* the same inferred deposit (amount and timestamp) and the same profit
\* values; no output value depends on the wall-clock time of the run.
C16_RunsIdentical == pc = "done" => RunsAgree

\* What holds: the two runs agree whenever the raw account record carries a
\* timestamp (updated_at or timestamp), and the amounts always agree.
RunsIdenticalWhenSnapshotDated ==
    pc = "done" =>
        /\ (raw.account.updated_at.form # "none" \/ raw.account.timestamp.form # "none")
              => RunsAgree
        /\ tables[1].profit = tables[2].profit
        /\ tables[1].info.inferred_initial_deposit = tables[2].info.inferred_initial_deposit

\* A state the two runs reach: nothing in the raw input is dated, and each
\* run injects the deposit one second before its own clock value.
InferredTimestampFromClock ==
    /\ pc = "done"
    /\ raw.transfers = <<>>
    /\ raw.trades = <<>>
    /\ tables[1].info.injected_inferred_deposit
    /\ tables[1].transfers[1].timestamp = Num(tables[1].clock - 1)
    /\ tables[2].transfers[1].timestamp = Num(tables[2].clock - 1)

(***************************************************************************)
(* The stages that compute profit values from the fetched tables:          *)
(* infer_initial_deposit_if_missing and _build_profit_snapshot as main     *)
(* calls them, the inference applied again to the table it returned, and   *)
(* build_profit_report of legacy/reports.py on a unified table.            *)
(***************************************************************************)

\* The caller's transfers, trades and balances after
\* infer_initial_deposit_if_missing: the function works on transfers.copy()
\* and on the new tables concat, sort_values and reset_index return.
tables_after_infer(caller_tables) == caller_tables

StageTransferRows ==
    {[timestamp |-> ts, event_type |-> e[1], asset |-> "USDC", amount_quote |-> e[2],
      fee_quote |-> 0, tx_hash |-> "h1", source |-> "deposit/history"] :
        ts \in {Num(1), NaN},
        e \in {<<"deposit", 1>>, <<"deposit", -1>>, <<"withdraw", 1>>}}

StageTradeRows ==
    {[timestamp |-> ts, side |-> e[1], market |-> "ETH", price |-> 1, size |-> e[2],
      notional_quote |-> e[2], fee_quote |-> e[3], funding_quote |-> 0,
      realized_pnl |-> pnl, liquidation |-> FALSE, tx_hash |-> "h2", source |-> "trades"] :
        ts \in {Num(3), NaN}, e \in {<<"buy", 1, 0>>, <<"sell", 2, 1>>}, pnl \in {0, 2}}

StageBalanceRows(ts) ==
    [timestamp : {Num(ts)}, total_asset_value_quote : {0, 3},
     collateral_quote : {0}, available_balance_quote : {0},
     realized_pnl_quote : {0, 1}, unrealized_pnl_quote : {0}, source : {"account"}]

\* Balance tables as fetch_balance_history returns them: ascending.
StageBalanceTables ==
    {<<>>} \cup {<<b>> : b \in StageBalanceRows(2)}
           \cup {<<b, c>> : b \in StageBalanceRows(2), c \in StageBalanceRows(4)}

StageSnapshot == [realized_pnl |-> 1, unrealized_pnl |-> 0, ending_equity |-> 3]

InitStages ==
    /\ pc = "stage_infer"
    /\ GuardUnused
    /\ MergeUnused
    /\ SecurityUnused
    /\ raw = None
    /\ account_index = 0
    /\ tables \in [transfers : {<<>>} \cup {<<x>> : x \in StageTransferRows},
                   trades : {<<>>} \cup {<<t>> : t \in StageTradeRows},
                   balances : StageBalanceTables]
    /\ result = [first |-> None, profit |-> None, second |-> None]
    /\ timeline = <<>>
    /\ unified_df \in {<<>>} \cup {<<x>> : x \in ReportTransferRows}
    /\ balance_snapshot = StageSnapshot
    /\ inputs = None
    /\ inference = NoInference
    /\ report = None

\* transfers, inference_info = infer_initial_deposit_if_missing(transfers,
\* trades, balances)
StageInfer ==
    /\ pc = "stage_infer"
    /\ \E r \in infer_initial_deposit_if_missing(tables.transfers, tables.trades,
                                                 tables.balances) :
          result' = [result EXCEPT !.first = r]
    /\ tables' = tables_after_infer(tables)
    /\ pc' = "stage_profit"
    /\ UNCHANGED <<raw, account_index, timeline>>
    /\ UNCHANGED guardVars
    /\ UNCHANGED reportVars
    /\ UNCHANGED mergeVars
    /\ UNCHANGED security

\* profit_snapshot = _build_profit_snapshot(trades, balances, transfers, airdrops)
\* with the transfers the inference returned.
StageProfitSnapshot ==
    /\ pc = "stage_profit"
    /\ result' = [result EXCEPT
          !.profit = build_profit_snapshot(tables.trades, tables.balances,
                                           result.first.transfers)]
    /\ pc' = "stage_again"
    /\ UNCHANGED <<raw, account_index, tables, timeline>>
    /\ UNCHANGED guardVars
    /\ UNCHANGED reportVars
    /\ UNCHANGED mergeVars
    /\ UNCHANGED security

\* infer_initial_deposit_if_missing applied to the transfers it returned,
\* with the same trades and balances.
StageInferAgain ==
    /\ pc = "stage_again"
    /\ \E r \in infer_initial_deposit_if_missing(result.first.transfers, tables.trades,
                                                 tables.balances) :
          result' = [result EXCEPT !.second = r]
    /\ tables' = tables_after_infer(tables)
    /\ pc' = "report"
    /\ UNCHANGED <<raw, account_index, timeline>>
    /\ UNCHANGED guardVars
    /\ UNCHANGED reportVars
    /\ UNCHANGED mergeVars
    /\ UNCHANGED security

NextStages == StageInfer \/ StageProfitSnapshot \/ StageInferAgain \/ CallBuildProfitReport

SpecStages == InitStages /\ [][NextStages]_vars

\* The realized PnL of the latest balance snapshot and of the trades.
LatestSnapshotRealized == tables.balances[Len(tables.balances)].realized_pnl_quote

TradeRealizedSum ==
    SumSeq([i \in 1..Len(tables.trades) |-> tables.trades[i].realized_pnl])

\* C24 as stated: whenever a balance snapshot exists, the realized PnL of the
\* profit computation and of the reconciliation estimate is that of the
\* latest snapshot; the sum of trade-level realized PnL is used only when no
\* snapshot exists; all profit code paths report the same realized PnL.
C24_RealizedFromLatestSnapshot ==
    pc \in {"stage_again", "report", "done"} =>
        /\ tables.balances # <<>> =>
              /\ result.first.info.realized_pnl = LatestSnapshotRealized
              /\ result.profit.realized_pnl_quote = LatestSnapshotRealized
        /\ tables.balances = <<>> =>
              /\ result.first.info.realized_pnl = TradeRealizedSum
              /\ result.profit.realized_pnl_quote = TradeRealizedSum
        /\ result.profit.realized_pnl_quote = result.first.info.realized_pnl

\* What holds: the inference takes the realized PnL of the latest snapshot
\* (0 without snapshots, never the trade sum), the profit snapshot always
\* takes the sum over the trades, and build_profit_report takes the value of
\* the snapshot dict it is given.
RealizedBySourcePerPath ==
    /\ pc \in {"stage_again", "report", "done"} =>
          /\ result.first.info.realized_pnl =
                IF tables.balances = <<>> THEN 0 ELSE LatestSnapshotRealized
          /\ result.profit.realized_pnl_quote = TradeRealizedSum
    /\ pc = "done" => report.realized_pnl = balance_snapshot.realized_pnl

\* C25: no stage mutates its inputs: the tables given to
\* infer_initial_deposit_if_missing and the table given to
\* build_profit_report are the same after every step (also when a synthetic
\* deposit is injected into the returned table), and when nothing is
\* injected the returned transfers table has exactly the rows of the input.
C25_InputsNotMutated ==
    /\ [][tables' = tables /\ unified_df' = unified_df /\ balance_snapshot' = balance_snapshot]_vars
    /\ [](pc \in {"stage_profit", "stage_again", "report", "done"} =>
            /\ ~result.first.info.injected_inferred_deposit =>
                  result.first.transfers = tables.transfers
            /\ result.first.info.injected_inferred_deposit =>
                  Len(result.first.transfers) = Len(tables.transfers) + 1)

\* C25 witness: a deposit was injected into the returned table, the report
\* was built on a non-empty table, and the inputs are as they were.
C25_Witness ==
    /\ pc = "done"
    /\ result.first.info.injected_inferred_deposit
    /\ Len(tables.transfers) = 1
    /\ Len(result.first.transfers) = 2
    /\ Len(unified_df) = 1
    /\ "date" \notin DOMAIN unified_df[1]

\* The rows of a table that have a timestamp.
dated_rows(table) == SelectSeq(table, LAMBDA x : ~x.timestamp.na)

\* The totals of an inference info a row can contribute to.
info_totals(info) ==
    <<info.total_deposits, info.total_withdrawals, info.fees_total, info.funding_total,
      info.exposure_proxy, info.reconciliation_estimate>>

\* C26 as stated: a trade or transfer whose timestamp is unparseable
\* contributes nothing to total deposits, total withdrawals, fee and funding
\* totals, the exposure proxy, the reconciliation estimate or the profit
\* snapshot: they are what the rows with a timestamp alone give.
C26_UndatedRowsDropped ==
    /\ pc \in {"stage_profit", "stage_again", "report", "done"} =>
          \E d \in infer_initial_deposit_if_missing(dated_rows(tables.transfers),
                                                    dated_rows(tables.trades),
                                                    tables.balances) :
              info_totals(d.info) = info_totals(result.first.info)
    /\ pc \in {"stage_again", "report", "done"} =>
          result.profit = build_profit_snapshot(dated_rows(tables.trades), tables.balances,
                                                dated_rows(result.first.transfers))

\* What holds: the rows without timestamp stay in the tables and count in
\* every total; only the timeline leaves them out.
UndatedRowsCounted ==
    pc \in {"stage_again", "report", "done"} =>
        /\ result.first.info.fees_total =
              SumSeq([i \in 1..Len(tables.trades) |-> tables.trades[i].fee_quote])
        /\ result.profit.fees_quote = result.first.info.fees_total
        /\ result.profit.deposits_quote = result.first.info.total_deposits
        /\ result.first.info.total_withdrawals = sum_amount(tables.transfers, "withdraw")
        /\ \A tl \in build_reconstructed_schema(tables.trades, result.first.transfers) :
              \A i \in 1..Len(tl) : ~tl[i].row.timestamp.na

\* The number of synthetic rows of a transfers table.
inference_rows(table) == Len(SelectSeq(table, LAMBDA x : x.source = "inference"))

\* C30 as stated: a synthetic deposit is injected only when the observed
\* deposit total is not positive, the inferred amount is positive and a
\* valid timestamp exists; at most one row per call; applied again to the
\* table it returned the function injects nothing, so a table never holds
\* more than one row with source "inference".
C30_InjectsAtMostOnce ==
    /\ pc \in {"stage_profit", "stage_again", "report", "done"} =>
          /\ result.first.info.injected_inferred_deposit =>
                /\ sum_amount(tables.transfers, "deposit") <= 0
                /\ result.first.info.inferred_initial_deposit > 0
                /\ ~earliest_timestamp(tables.transfers, tables.trades, tables.balances).na
          /\ inference_rows(result.first.transfers) <= 1
    /\ pc \in {"report", "done"} =>
          /\ ~result.second.info.injected_inferred_deposit
          /\ result.second.transfers = result.first.transfers
          /\ inference_rows(result.second.transfers) <= 1

\* What holds: the same whenever no deposit row has a negative amount.
InjectsAtMostOnceNonNegative ==
    (\A i \in 1..Len(tables.transfers) : tables.transfers[i].amount_quote >= 0) =>
        C30_InjectsAtMostOnce

=============================================================================
